---------------------------- MODULE Spec2Model ----------------------------
(***************************************************************************)
(* A model of the offline-first synchronisation engine of CEM-Cloud:       *)
(*   - the batch sync executor          (js/media_sync.js, syncBatch)      *)
(*   - the folder-path resolution cache (drive_api.js, ensureDrivePath)    *)
(*   - the master dataset and project CRUD (storage.js)                    *)
(* JavaScript runs one task at a time: the code between two awaits is one  *)
(* step, and the continuations of a settled promise (microtasks) run       *)
(* before the event loop takes the next task.                              *)
(***************************************************************************)
EXTENDS Naturals, Integers, Sequences, FiniteSets, Bags, TLC

VARIABLES
    \* ---- batch sync executor (js/media_sync.js) ----
    isSyncing,      \* the single-flight guard
    batch,          \* per syncBatch invocation: position, arguments, counters
    log,            \* transfers started/ended and notifications dispatched, in order
    localFiles,     \* relative paths present in the local store
    remoteFiles,    \* relative paths some remote object is tagged with
    \* ---- folder-path resolution (drive_api.js) ----
    folderCache,    \* cacheKey -> promise of a folder id
    promises,       \* the promises resolveFolderId returned, with their request in flight
    callers,        \* per ensureDrivePath invocation
    folders,        \* remote folder objects
    microtasks,     \* continuations of settled promises, first in first out
    \* ---- master dataset (storage.js, auth.js, storage_adapter.js) ----
    masterData,         \* the in-memory master document
    remoteMasterCache,  \* the remote document a detected conflict is about, or null
    persisted,          \* master_data.json in the local store the adapter writes to
    remote,             \* master_data.json on the remote store
    accessToken,        \* whether the user is logged in to the remote store
    storage,            \* progress of selectAndInitStorage and the backend selected
    tasks,              \* operations suspended at an await (a bag)
    ops,                \* calls made so far
    uuids,              \* identifiers crypto.randomUUID has produced so far
    outcome,            \* the most recent call and the error it threw, if any
    emitted,            \* the events the most recent step dispatched, in order
    \* ---- mergeDatasets and generateDataSignature applied to given documents ----
    localDoc,           \* the first argument of mergeDatasets
    remoteDoc,          \* the second argument of mergeDatasets
    mergedDoc,          \* mergeDatasets(localDoc, remoteDoc), once computed
    swappedDoc,         \* mergeDatasets(remoteDoc, localDoc), once computed
    reloadedDoc,        \* localDoc pushed to the remote store and pulled back
    signatures,         \* the signatures of localDoc and remoteDoc, once computed
    \* ---- sync report and sync statuses (js/media_sync.js) ----
    driveFiles,         \* what listAllDriveFiles answers: the remote objects, in order
    syncReport,         \* what generateSyncReport returned or threw, once called
    syncStatuses        \* what getAllProjectsSyncStatus returned or threw, once called

batchVars == <<isSyncing, batch, log, localFiles, remoteFiles>>
pathVars == <<folderCache, promises, callers, folders, microtasks>>
masterVars == <<masterData, remoteMasterCache, persisted, remote, accessToken,
                storage, tasks, ops, uuids, outcome, emitted>>
mergeVars == <<localDoc, remoteDoc, mergedDoc, swappedDoc, reloadedDoc, signatures>>
reportVars == <<driveFiles, syncReport, syncStatuses>>
vars == <<batchVars, pathVars, masterVars, mergeVars, reportVars>>

\* Bounds of the model
MaxCalls == 2
MaxItems == 2
MaxCallers == 2
MaxPromises == 3
MaxDepth == 2

None == "none"
Null == <<>>        \* null or undefined, where a value is optional: <<>> or <<value>>
Some(x) == <<x>>

\* The module state of storage.js, auth.js and the adapter before any call.
EmptyMaster == [hasProjects |-> TRUE, currentProjectId |-> Null, projects |-> <<>>,
                spots |-> <<>>, routes |-> <<>>]
NoOutcome == [op |-> None, error |-> None]
StorageNone == "none"

(***************************************************************************)
(* Batch sync executor                                                     *)
(***************************************************************************)
Calls == 1..MaxCalls
FileNames == {"P_1/sites/a.kml", "P_1/spots/s/images/s_cover.jpg"}
DriveIds == {"d1"}
\* A divergence record as generateSyncReport builds it: name and driveId
\* (driveId is null when the file is not on the remote store).
Items == [name : FileNames, driveId : DriveIds \cup {None}]
Directions == {"push", "pull"}

RECURSIVE SeqsUpTo(_, _)
SeqsUpTo(S, n) ==
    IF n = 0 THEN {<<>>}
    ELSE LET shorter == SeqsUpTo(S, n - 1)
         IN  shorter \cup {Append(s, x) : s \in {t \in shorter : Len(t) = n - 1}, x \in S}

ItemLists == SeqsUpTo(Items, MaxItems)
\* A null (or missing) entry of the list, and the lists that may hold one.
NullItem == [null |-> TRUE]
IsNullItem(item) == DOMAIN item = {"null"}
MalformedLists == SeqsUpTo(Items \cup {NullItem}, MaxItems)

IdleCall == [pc |-> "idle", items |-> <<>>, direction |-> None, i |-> 0,
             successCount |-> 0, failCount |-> 0]

\* The positions at which an invocation holds the thread: everything but
\* "idle" (not invoked) and "await" (suspended at the await of a transfer).
SyncPcs == {"loop", "progress", "release", "notify", "done", "busy", "thrown"}
ThreadFree == \A c \in Calls : batch[c].pc \notin SyncPcs

\* Math.round(((i + 1) / items.length) * 100)
Percent(i, n) == (200 * (i + 1) + n) \div (2 * n)

LogTransferStart(c, k) == [type |-> "start", call |-> c, idx |-> k, name |-> None,
                           fails |-> 0, success |-> 0, percent |-> 0, direction |-> None]
LogTransferEnd(c, k, ok) == [type |-> IF ok THEN "ok" ELSE "error", call |-> c, idx |-> k,
                             name |-> None, fails |-> 0, success |-> 0, percent |-> 0,
                             direction |-> None]
SyncProgress(c, k, nm, f, p) == [type |-> "sync-progress", call |-> c, idx |-> k, name |-> nm,
                                 fails |-> f, success |-> 0, percent |-> p, direction |-> None]
SyncBatchComplete(c, s, f, d) == [type |-> "sync-batch-complete", call |-> c, idx |-> 0,
                                  name |-> None, fails |-> f, success |-> s, percent |-> 0,
                                  direction |-> d]

\* Mutant: an executor without the guard (every invocation is accepted).
InvokeUnguarded(c, items, direction) ==
    /\ ThreadFree
    /\ batch[c].pc = "idle"
    /\ isSyncing' = TRUE
    /\ batch' = [batch EXCEPT ![c] = [pc |-> "loop", items |-> items,
                                      direction |-> direction, i |-> 0,
                                      successCount |-> 0, failCount |-> 0]]
    /\ UNCHANGED <<log, localFiles, remoteFiles, pathVars, masterVars, mergeVars, reportVars>>

\* syncBatch, lines 157-158: the guard. A busy invocation throws at once.
Invoke(c, items, direction) ==
    /\ ThreadFree
    /\ batch[c].pc = "idle"
    /\ IF isSyncing
       THEN /\ batch' = [batch EXCEPT ![c].pc = "busy"]
            /\ UNCHANGED isSyncing
       ELSE /\ isSyncing' = TRUE
            /\ batch' = [batch EXCEPT ![c] = [pc |-> "loop", items |-> items,
                                              direction |-> direction, i |-> 0,
                                              successCount |-> 0, failCount |-> 0]]
    /\ UNCHANGED <<log, localFiles, remoteFiles, pathVars, masterVars, mergeVars, reportVars>>

\* syncBatch, lines 163-170: the loop test and the call of the transfer.
\* A pull item without driveId throws inside the try and is counted at once.
\* A null entry makes item.name (item.driveId) throw inside the try, and
\* item.name throw again in the catch block, line 173: that error leaves the
\* loop and the function, which rejects.
LoopStep(c) ==
    LET b == batch[c] IN
    /\ b.pc = "loop"
    /\ IF b.i >= Len(b.items)
       THEN /\ batch' = [batch EXCEPT ![c].pc = "release"]
            /\ UNCHANGED log
       ELSE LET item == b.items[b.i + 1] IN
            IF IsNullItem(item)
            THEN /\ batch' = [batch EXCEPT ![c].pc = "thrown"]
                 /\ UNCHANGED log
            ELSE IF b.direction = "pull" /\ item.driveId = None
            THEN /\ batch' = [batch EXCEPT ![c].pc = "progress",
                                           ![c].failCount = b.failCount + 1]
                 /\ log' = Append(log, LogTransferEnd(c, b.i + 1, FALSE))
            ELSE /\ batch' = [batch EXCEPT ![c].pc = "await"]
                 /\ log' = Append(log, LogTransferStart(c, b.i + 1))
    /\ UNCHANGED <<isSyncing, localFiles, remoteFiles, pathVars, masterVars, mergeVars, reportVars>>

\* syncUp: fails when the local file is missing or a remote call fails;
\* otherwise a remote object tagged with the relative path exists afterwards.
SyncUpSucceeds(relPath, remoteOk) == remoteOk /\ relPath \in localFiles
\* syncDown: fails when the download or the local write fails; otherwise the
\* bytes are stored locally under the relative path.
SyncDownSucceeds(remoteOk) == remoteOk

\* Mutant: a failed transfer is not caught and ends the batch.
TransferDoneAborting(c, remoteOk) ==
    LET b == batch[c]
        item == b.items[b.i + 1]
        ok == IF b.direction = "push" THEN SyncUpSucceeds(item.name, remoteOk)
              ELSE SyncDownSucceeds(remoteOk)
    IN
    /\ ThreadFree
    /\ b.pc = "await"
    /\ batch' = [batch EXCEPT ![c].pc = IF ok THEN "progress" ELSE "release",
                              ![c].successCount = IF ok THEN b.successCount + 1 ELSE b.successCount,
                              ![c].failCount = IF ok THEN b.failCount ELSE b.failCount + 1]
    /\ log' = Append(log, LogTransferEnd(c, b.i + 1, ok))
    /\ remoteFiles' = IF ok /\ b.direction = "push" THEN remoteFiles \cup {item.name}
                      ELSE remoteFiles
    /\ localFiles' = IF ok /\ b.direction = "pull" THEN localFiles \cup {item.name}
                     ELSE localFiles
    /\ UNCHANGED <<isSyncing, pathVars, masterVars, mergeVars, reportVars>>

\* syncBatch, lines 166-175: the awaited transfer settles; count it.
TransferDone(c, remoteOk) ==
    LET b == batch[c]
        item == b.items[b.i + 1]
        ok == IF b.direction = "push" THEN SyncUpSucceeds(item.name, remoteOk)
              ELSE SyncDownSucceeds(remoteOk)
    IN
    /\ ThreadFree
    /\ b.pc = "await"
    /\ batch' = [batch EXCEPT ![c].pc = "progress",
                              ![c].successCount = IF ok THEN b.successCount + 1 ELSE b.successCount,
                              ![c].failCount = IF ok THEN b.failCount ELSE b.failCount + 1]
    /\ log' = Append(log, LogTransferEnd(c, b.i + 1, ok))
    /\ remoteFiles' = IF ok /\ b.direction = "push" THEN remoteFiles \cup {item.name}
                      ELSE remoteFiles
    /\ localFiles' = IF ok /\ b.direction = "pull" THEN localFiles \cup {item.name}
                     ELSE localFiles
    /\ UNCHANGED <<isSyncing, pathVars, masterVars, mergeVars, reportVars>>

\* Mutant: progress is reported for successful items only.
EmitProgressOnSuccess(c) ==
    LET b == batch[c] IN
    /\ b.pc = "progress"
    /\ log' = IF log # <<>> /\ log[Len(log)].type = "ok"
              THEN Append(log, SyncProgress(c, b.i + 1, b.items[b.i + 1].name, b.failCount,
                                            Percent(b.i, Len(b.items))))
              ELSE log
    /\ batch' = [batch EXCEPT ![c].pc = "loop", ![c].i = b.i + 1]
    /\ UNCHANGED <<isSyncing, localFiles, remoteFiles, pathVars, masterVars, mergeVars, reportVars>>

\* syncBatch, lines 178-181 and the loop increment.
EmitProgress(c) ==
    LET b == batch[c] IN
    /\ b.pc = "progress"
    /\ log' = Append(log, SyncProgress(c, b.i + 1, b.items[b.i + 1].name, b.failCount,
                                       Percent(b.i, Len(b.items))))
    /\ batch' = [batch EXCEPT ![c].pc = "loop", ![c].i = b.i + 1]
    /\ UNCHANGED <<isSyncing, localFiles, remoteFiles, pathVars, masterVars, mergeVars, reportVars>>

\* Mutant: the guard is never released.
ReleaseGuardForgotten(c) ==
    /\ batch[c].pc = "release"
    /\ batch' = [batch EXCEPT ![c].pc = "notify"]
    /\ UNCHANGED <<isSyncing, log, localFiles, remoteFiles, pathVars, masterVars, mergeVars, reportVars>>

\* syncBatch, line 184.
ReleaseGuard(c) ==
    /\ batch[c].pc = "release"
    /\ isSyncing' = FALSE
    /\ batch' = [batch EXCEPT ![c].pc = "notify"]
    /\ UNCHANGED <<log, localFiles, remoteFiles, pathVars, masterVars, mergeVars, reportVars>>

\* syncBatch, lines 185-189: the final notification and the return.
NotifyComplete(c) ==
    LET b == batch[c] IN
    /\ b.pc = "notify"
    /\ log' = Append(log, SyncBatchComplete(c, b.successCount, b.failCount, b.direction))
    /\ batch' = [batch EXCEPT ![c].pc = "done"]
    /\ UNCHANGED <<isSyncing, localFiles, remoteFiles, pathVars, masterVars, mergeVars, reportVars>>

\* runBatchSync: the caller's continuation (or its catch) takes the outcome.
\* The record of a finished batch is dropped with it.
Collect(c) ==
    /\ batch[c].pc \in {"done", "busy", "thrown"}
    /\ log' = IF batch[c].pc \in {"done", "thrown"} THEN <<>> ELSE log
    /\ batch' = [batch EXCEPT ![c] = IdleCall]
    /\ UNCHANGED <<isSyncing, localFiles, remoteFiles, pathVars, masterVars, mergeVars, reportVars>>

InitBatch ==
    /\ isSyncing = FALSE
    /\ batch = [c \in Calls |-> IdleCall]
    /\ log = <<>>
    /\ localFiles \in {{f} : f \in FileNames}
    /\ remoteFiles = {}
    /\ folderCache = {} /\ promises = <<>> /\ callers = <<>>
    /\ folders = {} /\ microtasks = <<>>
    /\ masterData = EmptyMaster /\ remoteMasterCache = Null /\ persisted = Null
    /\ remote = Null /\ accessToken = FALSE /\ storage = StorageNone
    /\ tasks = EmptyBag /\ ops = 0 /\ uuids = 0 /\ outcome = NoOutcome
    /\ emitted = <<>>
    /\ localDoc = EmptyMaster /\ remoteDoc = EmptyMaster /\ mergedDoc = Null
    /\ swappedDoc = Null /\ reloadedDoc = Null /\ signatures = Null
    /\ driveFiles = <<>> /\ syncReport = Null /\ syncStatuses = Null

NextBatch ==
    \/ \E c \in Calls, items \in ItemLists, d \in Directions : Invoke(c, items, d)
    \/ \E c \in Calls : LoopStep(c)
    \/ \E c \in Calls, remoteOk \in BOOLEAN : TransferDone(c, remoteOk)
    \/ \E c \in Calls : EmitProgress(c)
    \/ \E c \in Calls : ReleaseGuard(c)
    \/ \E c \in Calls : NotifyComplete(c)
    \/ \E c \in Calls : Collect(c)

SpecBatch == InitBatch /\ [][NextBatch]_vars

\* The executor called with lists that may hold null entries. An invocation
\* that can go on does go on: the thread runs what is ready in turn, however
\* often other invocations are made and turned away, and each local and
\* remote call returns or fails.
Continue(c) ==
    \/ LoopStep(c)
    \/ \E remoteOk \in BOOLEAN : TransferDone(c, remoteOk)
    \/ EmitProgress(c)
    \/ ReleaseGuard(c)
    \/ NotifyComplete(c)
    \/ Collect(c)
NextBatchLive ==
    \/ \E c \in Calls, items \in MalformedLists, d \in Directions : Invoke(c, items, d)
    \/ \E c \in Calls : Continue(c)

SpecBatchLive ==
    InitBatch /\ [][NextBatchLive]_vars /\ \A c \in Calls : SF_vars(Continue(c))

(***************************************************************************)
(* Folder-path resolution: ensureDrivePath and its cache of promises       *)
(***************************************************************************)
PathCallers == 1..MaxCallers
\* The folder parts of relative paths as the save functions build them.
RelativeDirs == {<<"P_1", "spots", "s", "images">>, <<"P_2">>}
PathPartsLists ==
    UNION {{SubSeq(d, 1, n) : n \in 1..(IF Len(d) < MaxDepth THEN Len(d) ELSE MaxDepth)} :
           d \in RelativeDirs}
RootId == 0
PromiseIds == 1..MaxPromises
FreePromise == [state |-> "free", value |-> 0, parent |-> 0, name |-> None,
                request |-> "none", reactions |-> <<>>]
NewPromise(parent, name) == [state |-> "pending", value |-> 0, parent |-> parent,
                             name |-> name, request |-> "list", reactions |-> <<>>]
FreeIds == {p \in PromiseIds : promises[p].state = "free"}
FreshId == CHOOSE p \in FreeIds : \A q \in FreeIds : p <= q

IdleCaller == [pc |-> "idle", pathParts |-> <<>>, k |-> 0, currentParentId |-> RootId,
               awaiting |-> 0, creator |-> FALSE]

CacheHas(parent, name) == \E e \in folderCache : e.parent = parent /\ e.name = name
CacheGet(parent, name) == (CHOOSE e \in folderCache : e.parent = parent /\ e.name = name).promise

\* Nothing else runs while a caller is inside a synchronous section or its
\* own caller is taking the outcome; a network response or a new call is a
\* task, taken when no microtask is left.
PathThreadFree == \A c \in PathCallers : callers[c].pc \notin {"loop", "returned", "threw"}
EventLoopIdle == PathThreadFree /\ microtasks = <<>>

\* await on a promise: the continuation runs as a microtask once it is settled.
AwaitPromise(c, p, proms) ==
    IF proms[p].state = "pending"
    THEN /\ promises' = [proms EXCEPT ![p].reactions = Append(@, c)]
         /\ UNCHANGED microtasks
    ELSE /\ promises' = proms
         /\ microtasks' = Append(microtasks, c)

\* A promise settles: its reactions are queued in the order they were registered.
Settle(p, state, value) ==
    /\ promises' = [promises EXCEPT ![p].state = state, ![p].value = value,
                                    ![p].request = "none", ![p].reactions = <<>>]
    /\ microtasks' = microtasks \o promises[p].reactions

\* ensureDrivePath is called (by syncUp) with the root folder's id.
EnsureDrivePath(c, pathParts) ==
    /\ EventLoopIdle
    /\ callers[c].pc = "idle"
    /\ callers' = [callers EXCEPT ![c] = [IdleCaller EXCEPT !.pc = "loop", !.pathParts = pathParts]]
    /\ UNCHANGED <<folderCache, promises, folders, microtasks, batchVars, masterVars, mergeVars, reportVars>>

\* Mutant: ensureDrivePath without the cache: every segment is looked up anew.
PathLoopUncached(c) ==
    LET me == callers[c] IN
    /\ me.pc = "loop"
    /\ IF me.k >= Len(me.pathParts)
       THEN /\ callers' = [callers EXCEPT ![c].pc = "returned"]
            /\ UNCHANGED <<folderCache, promises, microtasks>>
       ELSE LET folderName == me.pathParts[me.k + 1]
                p == FreshId
                created == [promises EXCEPT ![p] = NewPromise(me.currentParentId, folderName)]
            IN  /\ FreeIds # {}
                /\ UNCHANGED folderCache
                /\ callers' = [callers EXCEPT ![c].pc = "await", ![c].awaiting = p,
                                              ![c].creator = TRUE]
                /\ AwaitPromise(c, p, created)
    /\ UNCHANGED <<folders, batchVars, masterVars, mergeVars, reportVars>>

\* ensureDrivePath, lines 59-95: the loop test, the cache lookup, and on a
\* miss the start of resolveFolderId (its list request) and the cache entry.
PathLoop(c) ==
    LET me == callers[c] IN
    /\ me.pc = "loop"
    /\ IF me.k >= Len(me.pathParts)
       THEN /\ callers' = [callers EXCEPT ![c].pc = "returned"]
            /\ UNCHANGED <<folderCache, promises, microtasks>>
       ELSE LET folderName == me.pathParts[me.k + 1] IN
            IF CacheHas(me.currentParentId, folderName)
            THEN LET p == CacheGet(me.currentParentId, folderName) IN
                 /\ callers' = [callers EXCEPT ![c].pc = "await", ![c].awaiting = p,
                                               ![c].creator = FALSE]
                 /\ AwaitPromise(c, p, promises)
                 /\ UNCHANGED folderCache
            ELSE LET p == FreshId
                     created == [promises EXCEPT ![p] = NewPromise(me.currentParentId, folderName)]
                 IN  /\ FreeIds # {}
                     /\ folderCache' = folderCache \cup
                            {[parent |-> me.currentParentId, name |-> folderName, promise |-> p]}
                     /\ callers' = [callers EXCEPT ![c].pc = "await", ![c].awaiting = p,
                                                   ![c].creator = TRUE]
                     /\ AwaitPromise(c, p, created)
    /\ UNCHANGED <<folders, batchVars, masterVars, mergeVars, reportVars>>

Matching(parent, name) == {f \in folders : f.parent = parent /\ f.name = name}

\* resolveFolderId, lines 71-88: the list request is answered. A failed
\* request rejects the promise; a match fulfils it with files[0].id; no
\* match sends the create request.
ListAnswered(p, ok) ==
    /\ EventLoopIdle
    /\ promises[p].request = "list"
    /\ IF ~ok
       THEN Settle(p, "rejected", 0)
       ELSE IF Matching(promises[p].parent, promises[p].name) # {}
            THEN \E f \in Matching(promises[p].parent, promises[p].name) :
                     Settle(p, "fulfilled", f.id)
            ELSE /\ promises' = [promises EXCEPT ![p].request = "create"]
                 /\ UNCHANGED microtasks
    /\ UNCHANGED <<folderCache, callers, folders, batchVars, masterVars, mergeVars, reportVars>>

\* resolveFolderId, lines 77-87: the create request is answered. It may
\* fail before or after the remote store has made the folder.
CreateAnswered(p, made, answered) ==
    /\ EventLoopIdle
    /\ promises[p].request = "create"
    /\ (answered => made)
    /\ LET id == Cardinality(folders) + 1 IN
       /\ folders' = IF made
                     THEN folders \cup {[id |-> id, parent |-> promises[p].parent,
                                         name |-> promises[p].name]}
                     ELSE folders
       /\ IF answered THEN Settle(p, "fulfilled", id) ELSE Settle(p, "rejected", 0)
    /\ UNCHANGED <<folderCache, callers, batchVars, masterVars, mergeVars, reportVars>>

\* Mutant: a failed resolution stays in the cache.
PathResumeNoEvict(c) ==
    LET me == callers[c]
        p == me.awaiting
    IN
    /\ PathThreadFree
    /\ microtasks # <<>> /\ Head(microtasks) = c
    /\ microtasks' = Tail(microtasks)
    /\ IF promises[p].state = "fulfilled"
       THEN /\ callers' = [callers EXCEPT ![c].pc = "loop", ![c].k = me.k + 1,
                                          ![c].currentParentId = promises[p].value]
            /\ UNCHANGED folderCache
       ELSE /\ callers' = [callers EXCEPT ![c].pc = "threw"]
            /\ UNCHANGED folderCache
    /\ promises' = IF /\ promises[p].state = "rejected"
                       /\ ~\E e \in folderCache' : e.promise = p
                       /\ ~\E d \in PathCallers \ {c} :
                              callers[d].pc = "await" /\ callers[d].awaiting = p
                    THEN [promises EXCEPT ![p] = FreePromise]
                    ELSE promises
    /\ UNCHANGED <<folders, batchVars, masterVars, mergeVars, reportVars>>

\* ensureDrivePath, lines 63-64 and 94-99: the awaited promise has settled.
\* The caller that started the resolution evicts it when it failed.
PathResume(c) ==
    LET me == callers[c]
        p == me.awaiting
    IN
    /\ PathThreadFree
    /\ microtasks # <<>> /\ Head(microtasks) = c
    /\ microtasks' = Tail(microtasks)
    /\ IF promises[p].state = "fulfilled"
       THEN /\ callers' = [callers EXCEPT ![c].pc = "loop", ![c].k = me.k + 1,
                                          ![c].currentParentId = promises[p].value]
            /\ UNCHANGED folderCache
       ELSE /\ callers' = [callers EXCEPT ![c].pc = "threw"]
            /\ folderCache' = IF me.creator
                              THEN {e \in folderCache :
                                       ~(e.parent = me.currentParentId
                                         /\ e.name = me.pathParts[me.k + 1])}
                              ELSE folderCache
    /\ promises' = IF /\ promises[p].state = "rejected"
                       /\ ~\E e \in folderCache' : e.promise = p
                       /\ ~\E d \in PathCallers \ {c} :
                              callers[d].pc = "await" /\ callers[d].awaiting = p
                    THEN [promises EXCEPT ![p] = FreePromise]
                    ELSE promises
    /\ UNCHANGED <<folders, batchVars, masterVars, mergeVars, reportVars>>

\* syncUp: the caller of ensureDrivePath takes the folder id or the error.
PathCollect(c) ==
    /\ callers[c].pc \in {"returned", "threw"}
    /\ callers' = [callers EXCEPT ![c] = IdleCaller]
    /\ UNCHANGED <<folderCache, promises, folders, microtasks, batchVars, masterVars, mergeVars, reportVars>>

InitPath ==
    /\ folderCache = {}
    /\ promises = [p \in PromiseIds |-> FreePromise]
    /\ callers = [c \in PathCallers |-> IdleCaller]
    /\ folders = {}
    /\ microtasks = <<>>
    /\ isSyncing = FALSE /\ batch = <<>> /\ log = <<>> /\ localFiles = {} /\ remoteFiles = {}
    /\ masterData = EmptyMaster /\ remoteMasterCache = Null /\ persisted = Null
    /\ remote = Null /\ accessToken = FALSE /\ storage = StorageNone
    /\ tasks = EmptyBag /\ ops = 0 /\ uuids = 0 /\ outcome = NoOutcome
    /\ emitted = <<>>
    /\ localDoc = EmptyMaster /\ remoteDoc = EmptyMaster /\ mergedDoc = Null
    /\ swappedDoc = Null /\ reloadedDoc = Null /\ signatures = Null
    /\ driveFiles = <<>> /\ syncReport = Null /\ syncStatuses = Null

NextPath ==
    \/ \E c \in PathCallers, pathParts \in PathPartsLists : EnsureDrivePath(c, pathParts)
    \/ \E c \in PathCallers : PathLoop(c)
    \/ \E p \in PromiseIds, ok \in BOOLEAN : ListAnswered(p, ok)
    \/ \E p \in PromiseIds, made, answered \in BOOLEAN : CreateAnswered(p, made, answered)
    \/ \E c \in PathCallers : PathResume(c)
    \/ \E c \in PathCallers : PathCollect(c)

SpecPath == InitPath /\ [][NextPath]_vars

(***************************************************************************)
(* Claims about the batch sync executor                                    *)
(***************************************************************************)
\* An accepted invocation that has not emitted its final notification yet.
Running(c) == batch[c].pc \in {"loop", "await", "progress", "release", "notify"}
EntriesOf(c) == SelectSeq(log, LAMBDA e : e.call = c)
NotificationsOf(c) ==
    SelectSeq(log, LAMBDA e : e.call = c /\ e.type \in {"sync-progress", "sync-batch-complete"})
CountOf(c, types) == Len(SelectSeq(log, LAMBDA e : e.call = c /\ e.type \in types))

\* C1: single flight. An invocation made while another one is running fails
\* at once with the busy error: it starts no transfer, dispatches no
\* notification and leaves the guard, the stores and the running batch's
\* position and counts as they are.
C1_SingleFlight ==
    [][\A c \in Calls :
          (batch[c].pc = "idle" /\ batch'[c].pc # "idle" /\ \E d \in Calls \ {c} : Running(d))
          => /\ batch'[c].pc = "busy"
             /\ batch'[c].items = <<>>
             /\ log' = log
             /\ localFiles' = localFiles /\ remoteFiles' = remoteFiles
             /\ isSyncing' = isSyncing
             /\ \A d \in Calls \ {c} : batch'[d] = batch[d]]_vars

\* C1 witness: an invocation was refused while a batch that has already
\* transferred something is suspended at a transfer.
C1_Witness ==
    \E c, d \in Calls : /\ batch[c].pc = "busy"
                        /\ batch[d].pc = "await" /\ batch[d].i >= 1

\* C2: a batch attempts every item even when some fail: when it returns,
\* success + failed = n, every index 1..n has exactly one outcome, failed is
\* the number of items that raised an error, and a pull item without driveId
\* is one of these without any transfer having been started for it.
C2_FailuresIsolated ==
    \A c \in Calls :
        batch[c].pc = "done" =>
            LET b == batch[c]
                n == Len(b.items)
            IN  /\ b.successCount + b.failCount = n
                /\ \A k \in 1..n :
                       Len(SelectSeq(log, LAMBDA e : e.call = c /\ e.idx = k
                                                      /\ e.type \in {"ok", "error"})) = 1
                /\ b.failCount = CountOf(c, {"error"})
                /\ b.successCount = CountOf(c, {"ok"})
                /\ \A k \in 1..n :
                       (b.direction = "pull" /\ b.items[k].driveId = None)
                       => /\ \E j \in 1..Len(log) : log[j].call = c /\ log[j].idx = k
                                                     /\ log[j].type = "error"
                          /\ ~\E j \in 1..Len(log) : log[j].call = c /\ log[j].idx = k
                                                      /\ log[j].type = "start"

\* C2 witness: a returned batch in which an item failed and a later one succeeded.
C2_Witness ==
    \E c \in Calls :
        /\ batch[c].pc = "done"
        /\ \E j, k \in 1..Len(log) : j < k /\ log[j].type = "error" /\ log[k].type = "ok"

\* C3: items are processed in input order, one at a time. The k-th progress
\* notification names item k, comes after item k's outcome and before item
\* k+1's transfer starts; a returned batch has dispatched exactly n progress
\* notifications followed by one sync-batch-complete carrying the returned totals.
C3_InOrderProgress ==
    \A c \in Calls :
        LET b == batch[c]
            n == Len(b.items)
            notes == NotificationsOf(c)
        IN  /\ \A j \in 1..Len(notes) :
                   notes[j].type = "sync-progress" =>
                       /\ notes[j].idx = j /\ j <= n
                       /\ notes[j].name = b.items[j].name
                       /\ notes[j].percent = Percent(j - 1, n)
            /\ \A j \in 1..Len(log) :
                   (log[j].call = c /\ log[j].type = "sync-progress") =>
                       /\ \E h \in 1..(j - 1) : /\ log[h].call = c /\ log[h].idx = log[j].idx
                                                /\ log[h].type \in {"ok", "error"}
                       /\ \A h \in 1..Len(log) :
                              (log[h].type = "start" /\ log[h].idx = log[j].idx + 1) => h > j
                       /\ \A h \in 1..Len(log) :
                              (log[h].type = "start" /\ log[h].idx <= log[j].idx) => h < j
            /\ b.pc = "done" =>
                   /\ Len(notes) = n + 1
                   /\ \A j \in 1..n : notes[j].type = "sync-progress"
                   /\ notes[n + 1] = SyncBatchComplete(c, b.successCount, b.failCount, b.direction)
                   /\ log[Len(log)] = notes[n + 1]

\* C3 witness: a returned batch of two differently named items, one failed.
C3_Witness ==
    \E c \in Calls :
        /\ batch[c].pc = "done"
        /\ Len(batch[c].items) = 2
        /\ batch[c].items[1].name # batch[c].items[2].name
        /\ batch[c].failCount = 1

\* C4 as stated: the final notification is emitted while the guard is still
\* held, the guard being released only after it: an accepted invocation that
\* has not emitted its final notification yet holds the guard.
C4_NotifiedUnderGuard ==
    \A c \in Calls : Running(c) => isSyncing

\* C4 amended: the guard is held while the items are transferred and their
\* progress is reported; it is released right before the final notification
\* is emitted; no batch is accepted before the previous one has emitted it.
C4_ReleasedBeforeNotify ==
    /\ \A c \in Calls :
           /\ batch[c].pc \in {"loop", "await", "progress", "release"}
              => isSyncing /\ CountOf(c, {"sync-batch-complete"}) = 0
           /\ batch[c].pc = "notify"
              => ~isSyncing /\ CountOf(c, {"sync-batch-complete"}) = 0
           /\ batch[c].pc = "done"
              => log # <<>> /\ log[Len(log)].type = "sync-batch-complete"
                 /\ log[Len(log)].call = c
    /\ \A c, d \in Calls : (Running(c) /\ Running(d)) => c = d

\* C4 witness: a batch that transferred an item stands between the release
\* of the guard and its final notification.
C4_Witness ==
    \E c \in Calls : batch[c].pc = "notify" /\ batch[c].successCount >= 1 /\ ~isSyncing

(***************************************************************************)
(* Claims about the folder-path resolution cache                           *)
(***************************************************************************)
Queued(c) == \E j \in 1..Len(microtasks) : microtasks[j] = c
\* The path segment a caller suspended at an await is resolving.
KeyOf(c) == <<callers[c].currentParentId, callers[c].pathParts[callers[c].k + 1]>>
Waiting(c) == callers[c].pc = "await"

\* C5: per (parentId, folderName) at most one resolution is in flight, it is
\* the one the cache holds, callers of that segment wait for that one
\* promise, and the remote store never gets two folders of the same name
\* under the same parent.
C5_OneResolutionPerKey ==
    /\ \A p, q \in PromiseIds :
           (/\ promises[p].state = "pending" /\ promises[q].state = "pending"
            /\ promises[p].parent = promises[q].parent
            /\ promises[p].name = promises[q].name) => p = q
    /\ \A p \in PromiseIds :
           promises[p].state = "pending" =>
               /\ CacheHas(promises[p].parent, promises[p].name)
               /\ CacheGet(promises[p].parent, promises[p].name) = p
    /\ \A c, d \in PathCallers :
           (Waiting(c) /\ Waiting(d) /\ KeyOf(c) = KeyOf(d)
            /\ promises[callers[c].awaiting].state = "pending"
            /\ promises[callers[d].awaiting].state = "pending")
           => callers[c].awaiting = callers[d].awaiting
    /\ \A f, g \in folders : (f.parent = g.parent /\ f.name = g.name) => f = g

\* C5 witness: two callers wait for one pending resolution whose create
\* request is in flight, below a folder this client made.
C5_Witness ==
    \E c, d \in PathCallers :
        /\ c # d /\ Waiting(c) /\ Waiting(d)
        /\ callers[c].awaiting = callers[d].awaiting
        /\ promises[callers[c].awaiting].request = "create"
        /\ promises[callers[c].awaiting].reactions = <<c, d>>
        /\ folders # {}

\* The state part of C6: a failed resolution is in the cache only while the
\* continuation of the caller that started it is still queued, never when a
\* caller reads the cache; every caller waiting for it has its continuation
\* queued.
C6_NoFailureCached ==
    /\ \A e \in folderCache :
           promises[e.promise].state = "rejected" =>
               /\ \E c \in PathCallers : /\ Waiting(c) /\ callers[c].creator
                                         /\ callers[c].awaiting = e.promise /\ Queued(c)
               /\ \A c \in PathCallers : callers[c].pc # "loop"
    /\ \A c \in PathCallers :
           (Waiting(c) /\ promises[callers[c].awaiting].state = "rejected") => Queued(c)
    /\ EventLoopIdle => \A e \in folderCache : promises[e.promise].state # "rejected"

\* C6: a failed resolution is evicted and its error reaches every caller
\* waiting for it; a caller that reaches the segment afterwards waits for a
\* resolution that has not failed (a fresh one when none is cached).
C6_FailureEvicted ==
    [][/\ C6_NoFailureCached'
       /\ \A c \in PathCallers :
              /\ (/\ Waiting(c) /\ promises[callers[c].awaiting].state = "rejected"
                  /\ callers'[c].pc # "await")
                 => /\ callers'[c].pc = "threw"
                    /\ callers[c].creator
                       => ~\E e \in folderCache' : <<e.parent, e.name>> = KeyOf(c)
              /\ (callers[c].pc = "loop" /\ callers'[c].pc = "await")
                 => /\ promises'[callers'[c].awaiting].state # "rejected"
                    /\ ~CacheHas(callers[c].currentParentId, callers[c].pathParts[callers[c].k + 1])
                       => /\ promises'[callers'[c].awaiting].request = "list"
                          /\ callers'[c].creator]_vars

\* C6 witness: the caller that started a resolution got its error and the
\* segment is no longer cached, although the folder was made remotely; a
\* second caller of the same promise has the error queued.
C6_Witness ==
    \E c, d \in PathCallers :
        /\ c # d
        /\ callers[c].pc = "threw" /\ callers[c].creator
        /\ ~CacheHas(callers[c].currentParentId, callers[c].pathParts[callers[c].k + 1])
        /\ Waiting(d) /\ ~callers[d].creator /\ callers[d].awaiting = callers[c].awaiting
        /\ Queued(d)
        /\ folders # {}

(***************************************************************************)
(* Master dataset and project management (storage.js)                      *)
(*                                                                         *)
(* A string is a sequence of one-character strings, so that sanitising,    *)
(* trimming and substring are computed character by character.  A master   *)
(* document is a record; hasProjects is FALSE for a flat (v1) document,    *)
(* which has no projects property and keeps its entities at the top level. *)
(* Of the four entity arrays of a project the model keeps two: spots,      *)
(* whose items are keyed by spotId, and routes, keyed by id as the items   *)
(* of sites and external_files are.                                        *)
(***************************************************************************)
MaxOps == 3         \* calls made in one behaviour
ShortIdLen == 6

Letters == {"a", "b", "c", "d", "e", "f", "g", "h", "i", "j", "k", "l", "m",
            "n", "o", "p", "q", "r", "s", "t", "u", "v", "w", "x", "y", "z",
            "A", "B", "C", "D", "E", "F", "G", "H", "I", "J", "K", "L", "M",
            "N", "O", "P", "Q", "R", "S", "T", "U", "V", "W", "X", "Y", "Z"}
Digits == {"0", "1", "2", "3", "4", "5", "6", "7", "8", "9"}
Alnum == Letters \cup Digits
Whitespace == {" "}
Hex == <<"0", "1", "2", "3", "4", "5", "6", "7", "8", "9", "a", "b", "c", "d", "e", "f">>

UntitledName == <<"U", "n", "t", "i", "t", "l", "e", "d", " ", "P", "r", "o", "j", "e", "c", "t">>
DefaultName == <<"D", "e", "f", "a", "u", "l", "t", " ", "P", "r", "o", "j", "e", "c", "t">>
ProjectWord == <<"P", "r", "o", "j", "e", "c", "t">>
Unassigned == <<"U", "n", "a", "s", "s", "i", "g", "n", "e", "d">>

\* Names a caller passes to createProject and to renameProject: empty,
\* blank, padded and punctuated, plain.
CreateNames == {<<>>, <<"c">>}
RenameNames == {<<>>, <<" ">>, <<" ", "b", "!", " ">>, <<"c">>}

\* String.prototype.trim
RECURSIVE TrimStart(_)
TrimStart(s) == IF s # <<>> /\ Head(s) \in Whitespace THEN TrimStart(Tail(s)) ELSE s
RECURSIVE TrimEnd(_)
TrimEnd(s) ==
    IF s # <<>> /\ s[Len(s)] \in Whitespace THEN TrimEnd(SubSeq(s, 1, Len(s) - 1)) ELSE s
Trim(s) == TrimEnd(TrimStart(s))

\* .replace(/[^a-z0-9]/gi, '_')
ReplaceNonAlnum(s) == [i \in 1..Len(s) |-> IF s[i] \in Alnum THEN s[i] ELSE "_"]
\* .replace(/_{2,}/g, '_')
RECURSIVE CollapseUnderscores(_)
CollapseUnderscores(s) ==
    IF Len(s) < 2 THEN s
    ELSE IF s[1] = "_" /\ s[2] = "_" THEN CollapseUnderscores(Tail(s))
    ELSE <<s[1]>> \o CollapseUnderscores(Tail(s))
\* .replace(/^_|_$/g, '')
StripUnderscores(s) ==
    LET a == IF s # <<>> /\ Head(s) = "_" THEN Tail(s) ELSE s
    IN  IF a # <<>> /\ a[Len(a)] = "_" THEN SubSeq(a, 1, Len(a) - 1) ELSE a
Sanitize(s) == StripUnderscores(CollapseUnderscores(ReplaceNonAlnum(s)))
\* id.substring(0, 6)
ShortId(id) == SubSeq(id, 1, IF Len(id) < ShortIdLen THEN Len(id) ELSE ShortIdLen)

\* project is null (<<>>) or <<a project>>
getProjectFolderName(project) ==
    IF project = Null THEN Unassigned
    ELSE LET safeName == Sanitize(project[1].name)
             shortId == ShortId(project[1].id)
         IN  (IF safeName = <<>> THEN ProjectWord ELSE safeName) \o <<"_">> \o shortId

\* The n-th identifier crypto.randomUUID returns in a behaviour (n from 0).
\* The stream is one the generator can produce; its identifiers are distinct
\* and every other one starts with the same six characters.
UUID(n) == <<Hex[(n % 2) + 2], "0", "0", "0", "0", "0", Hex[n + 1]>>
\* Identifiers generated before the behaviour starts, here or on another device.
OldId(n) == <<"f", "e", "d", "c", "b", "a", Hex[n + 1]>>
UnknownId == OldId(9)

\* name stands for every property of an entity besides its id and timestamp
OldSpot == [spotId |-> <<"s", "1">>, timestamp |-> 0, name |-> <<"n">>]
OtherSpot == [spotId |-> <<"s", "2">>, timestamp |-> 0, name |-> <<"n">>]
OldRoute == [id |-> <<"r", "1">>, timestamp |-> 0, name |-> <<"n">>]
NewerRoute == [id |-> <<"r", "1">>, timestamp |-> 1, name |-> <<"n">>]
ProjectA == [id |-> OldId(1), name |-> <<"a">>, spots |-> <<OldSpot>>, routes |-> <<OldRoute>>]
ProjectB == [id |-> OldId(2), name |-> <<"b">>, spots |-> <<>>, routes |-> <<>>]
ProjectF == [id |-> OldId(3), name |-> <<"f">>, spots |-> <<>>, routes |-> <<>>]

\* Documents an earlier session or another device has written.
FlatDoc == [hasProjects |-> FALSE, currentProjectId |-> Null, projects |-> <<>>,
            spots |-> <<OldSpot>>, routes |-> <<OldRoute>>]
OneProjectDoc == [hasProjects |-> TRUE, currentProjectId |-> ProjectA.id,
                  projects |-> <<ProjectA>>, spots |-> <<>>, routes |-> <<>>]
TwoProjectDoc == [hasProjects |-> TRUE, currentProjectId |-> ProjectB.id,
                  projects |-> <<ProjectA, ProjectB>>, spots |-> <<>>, routes |-> <<>>]
\* currentProjectId names a project that is not in projects
OrphanDoc == [TwoProjectDoc EXCEPT !.currentProjectId = ProjectF.id]
\* another device renamed project A, re-recorded its route, recorded a spot,
\* and added project F
ForeignDoc == [hasProjects |-> TRUE, currentProjectId |-> ProjectF.id,
               projects |-> <<[ProjectA EXCEPT !.name = <<"c">>, !.routes = <<NewerRoute>>,
                                               !.spots = <<OldSpot, OtherSpot>>],
                              ProjectF>>,
               spots |-> <<>>, routes |-> <<>>]
LocalDocs == {Null, Some(FlatDoc), Some(OneProjectDoc), Some(TwoProjectDoc), Some(OrphanDoc)}
OtherDeviceDocs == {FlatDoc, ForeignDoc}

\* projects.find(p => p.id === id), as an index (0: not found)
IndexOf(projects, id) ==
    IF \E i \in 1..Len(projects) : projects[i].id = id
    THEN CHOOSE i \in 1..Len(projects) :
            /\ projects[i].id = id
            /\ \A j \in 1..(i - 1) : projects[j].id # id
    ELSE 0

\* The index of the active project, falling back to the first; 0 for null.
getActiveProject ==
    IF Len(masterData.projects) = 0 THEN 0
    ELSE IF IndexOf(masterData.projects, masterData.currentProjectId) # 0
         THEN IndexOf(masterData.projects, masterData.currentProjectId)
         ELSE 1

\* a migration whose default project starts empty
MigratedEmpty(id, data) ==
    [hasProjects |-> TRUE, currentProjectId |-> id,
     projects |-> <<[id |-> id, name |-> DefaultName, spots |-> <<>>, routes |-> <<>>]>>,
     spots |-> <<>>, routes |-> <<>>]

\* a migration that leaves no project current
MigratedNotCurrent(id, data) ==
    [hasProjects |-> TRUE, currentProjectId |-> Null,
     projects |-> <<[id |-> id, name |-> DefaultName,
                     spots |-> data.spots, routes |-> data.routes]>>,
     spots |-> <<>>, routes |-> <<>>]

\* The v1 -> v2 migration: one default project takes the flat entities.
Migrated(id, data) ==
    [hasProjects |-> TRUE, currentProjectId |-> id,
     projects |-> <<[id |-> id, name |-> DefaultName,
                     spots |-> data.spots, routes |-> data.routes]>>,
     spots |-> <<>>, routes |-> <<>>]

FreshInstall(id) ==
    [hasProjects |-> TRUE, currentProjectId |-> id,
     projects |-> <<[id |-> id, name |-> UntitledName, spots |-> <<>>, routes |-> <<>>]>>,
     spots |-> <<>>, routes |-> <<>>]

\* The v2 branch of ensureMasterJson: an orphaned currentProjectId is
\* repaired to the first project, or to null when there is none.
Repaired(data) ==
    IF IndexOf(data.projects, data.currentProjectId) # 0 THEN data
    ELSE [data EXCEPT !.currentProjectId =
              IF Len(data.projects) > 0 THEN data.projects[1].id ELSE Null]

\* the parts joined in the order they are stored in, not sorted
BagOfSeqUnsorted(s) == s

RECURSIVE BagOfSeq(_)
BagOfSeq(s) == IF s = <<>> THEN EmptyBag ELSE SetToBag({Head(s)}) (+) BagOfSeq(Tail(s))

\* generateDataSignature joining the ids of the entities without their timestamps
generateDataSignatureIdsOnly(data) ==
    IF ~data.hasProjects THEN [empty |-> TRUE, projects |-> EmptyBag]
    ELSE [empty |-> FALSE,
          projects |-> BagOfSeq([i \in 1..Len(data.projects) |->
              LET p == data.projects[i]
              IN  [id |-> p.id, name |-> p.name,
                   spots |-> BagOfSeq([j \in 1..Len(p.spots) |-> p.spots[j].spotId]),
                   routes |-> BagOfSeq([j \in 1..Len(p.routes) |-> p.routes[j].id])]])]

\* The sorted, joined string is compared for equality only: it is modelled
\* by the bag of its parts.
generateDataSignature(data) ==
    IF ~data.hasProjects THEN [empty |-> TRUE, projects |-> EmptyBag]
    ELSE [empty |-> FALSE,
          projects |-> BagOfSeq([i \in 1..Len(data.projects) |->
              LET p == data.projects[i]
              IN  [id |-> p.id, name |-> p.name,
                   spots |-> BagOfSeq([j \in 1..Len(p.spots) |->
                                  <<p.spots[j].spotId, p.spots[j].timestamp>>]),
                   routes |-> BagOfSeq([j \in 1..Len(p.routes) |->
                                  <<p.routes[j].id, p.routes[j].timestamp>>])]])]

\* item.spotId || item.id
ItemId(item) == IF "spotId" \in DOMAIN item THEN item.spotId ELSE item.id
\* map.get(id), as an index into the map's insertion order (0: not there)
MapIndex(map, id) ==
    IF \E i \in 1..Len(map) : ItemId(map[i]) = id
    THEN CHOOSE i \in 1..Len(map) : ItemId(map[i]) = id
    ELSE 0

\* mergeArray replacing the entry it holds when the timestamps are equal too
RECURSIVE MergeItemsTieReplaces(_, _)
MergeItemsTieReplaces(map, items) ==
    IF items = <<>> THEN map
    ELSE LET item == Head(items)
             k == MapIndex(map, ItemId(item))
             next == IF k = 0 THEN Append(map, item)
                     ELSE IF item.timestamp >= map[k].timestamp
                          THEN [map EXCEPT ![k] = item]
                          ELSE map
         IN  MergeItemsTieReplaces(next, Tail(items))

\* mergeArray: by id, the first position is kept, the later timestamp wins
RECURSIVE MergeItems(_, _)
MergeItems(map, items) ==
    IF items = <<>> THEN map
    ELSE LET item == Head(items)
             k == MapIndex(map, ItemId(item))
             next == IF k = 0 THEN Append(map, item)
                     ELSE IF item.timestamp > map[k].timestamp
                          THEN [map EXCEPT ![k] = item]
                          ELSE map
         IN  MergeItems(next, Tail(items))
mergeArray(arr1, arr2) == MergeItems(<<>>, arr1 \o arr2)

\* the project loop of mergeDatasets without the projectMap.has test
RECURSIVE MergeProjectsAppending(_, _)
MergeProjectsAppending(projectMap, rps) ==
    IF rps = <<>> THEN projectMap
    ELSE MergeProjectsAppending(Append(projectMap, Head(rps)), Tail(rps))

\* project.spots, project.sites, ...: an array the project does not have
\* reads as empty (arr = [] in mergeArray, if (!project.sites) in save*).
EntityArrays == {"spots", "routes", "sites", "external_files"}
Field(project, f) == IF f \in DOMAIN project THEN project[f] ELSE <<>>

\* The project loop of mergeDatasets: the entity arrays of a project on both
\* sides are merged (those the model's projects carry), a project on the
\* remote side only is added.
RECURSIVE MergeProjects(_, _)
MergeProjects(projectMap, rps) ==
    IF rps = <<>> THEN projectMap
    ELSE LET rp == Head(rps)
             k == IndexOf(projectMap, rp.id)
             lp == projectMap[k]
             next == IF k # 0
                     THEN [projectMap EXCEPT ![k] =
                              [f \in DOMAIN lp |->
                                  IF f \in EntityArrays THEN mergeArray(lp[f], Field(rp, f))
                                  ELSE lp[f]]]
                     ELSE Append(projectMap, rp)
         IN  MergeProjects(next, Tail(rps))

\* mergeDatasets taking currentProjectId from the remote side
mergeDatasetsRemoteCurrent(localData, remoteData, n) ==
    LET l == IF localData.hasProjects THEN localData ELSE Migrated(UUID(n), localData)
        m == IF localData.hasProjects THEN n ELSE n + 1
        r == IF remoteData.hasProjects THEN remoteData ELSE Migrated(UUID(m), remoteData)
    IN  [hasProjects |-> TRUE, currentProjectId |-> r.currentProjectId,
         projects |-> MergeProjects(l.projects, r.projects),
         spots |-> <<>>, routes |-> <<>>]

\* n identifiers have been generated before the call
mergeDatasets(localData, remoteData, n) ==
    LET l == IF localData.hasProjects THEN localData ELSE Migrated(UUID(n), localData)
        m == IF localData.hasProjects THEN n ELSE n + 1
        r == IF remoteData.hasProjects THEN remoteData ELSE Migrated(UUID(m), remoteData)
    IN  [hasProjects |-> TRUE, currentProjectId |-> l.currentProjectId,
         projects |-> MergeProjects(l.projects, r.projects),
         spots |-> <<>>, routes |-> <<>>]
\* the identifiers mergeDatasets generates
MergeUuids(localData, remoteData) ==
    (IF localData.hasProjects THEN 0 ELSE 1) + (IF remoteData.hasProjects THEN 0 ELSE 1)

\* Suspended operations.  kind: the await the operation is at; op: the
\* operation; blob: the document it serialised.
Task(kind, op, blob) == [kind |-> kind, op |-> op, blob |-> blob]
Suspended == BagToSet(tasks)
Spawn(t) == tasks (+) SetToBag({t})
Remove(t) == tasks (-) SetToBag({t})
Replace(t, u) == (tasks (-) SetToBag({t})) (+) SetToBag({u})

\* The document has been loaded: the project and entity calls of the model
\* are made from then on.
Loaded == storage \in {"finishing", "ready", "failed"}

\* A call is made and returns, or throws error, at its first await or before;
\* it touches nothing of the batch executor or the folder cache.
Called(op, error) ==
    /\ ops < MaxOps
    /\ ops' = ops + 1
    /\ outcome' = [op |-> op, error |-> error]
    /\ UNCHANGED <<batchVars, pathVars, mergeVars, reportVars>>
ProjectCall(op, error) == Loaded /\ Called(op, error)

\* What the cached remote document is now: after a pull it is the very
\* object masterData refers to, and changes with it.
CachedRemote ==
    IF remoteMasterCache[1].aliased THEN masterData ELSE remoteMasterCache[1].data
\* masterData is assigned a new object: the cache keeps the old one.
Unaliased ==
    IF remoteMasterCache # Null /\ remoteMasterCache[1].aliased
    THEN Some([remoteMasterCache[1] EXCEPT !.data = masterData, !.aliased = FALSE])
    ELSE remoteMasterCache

ProjectIdArgs == {masterData.projects[i].id : i \in 1..Len(masterData.projects)} \cup {UnknownId}

LastProjectError == "Cannot delete the last remaining project."
NotFoundError == "Project not found"
EmptyNameError == "Name cannot be empty"
NoActiveProjectError == "No active project."
AbortError == "AbortError"

\* new Event(type), new CustomEvent(type, {detail})
Event(type) == [type |-> type, detail |-> Null]
CustomEvent(type, detail) == [type |-> type, detail |-> Some(detail)]
\* createProject and renameProject dispatching data-updated like the others
EventsAllDataUpdated(op) ==
    CASE op \in {"createProject", "switchProject", "renameProject", "deleteProject"} ->
             <<Event("project-changed"), Event("data-updated")>>
      [] op \in {"saveSpot", "saveRoute", "saveSite", "saveExternalFile"} ->
             <<Event("data-updated")>>
      [] op = "init" -> <<Event("storage-ready"), Event("data-updated")>>
      [] op \in {"pull", "push", "merge"} -> <<Event("data-updated"), Event("project-changed")>>
      [] OTHER -> <<>>
\* The events an operation dispatches once its awaits are over.
Events(op) ==
    CASE op = "createProject" -> <<Event("project-changed")>>
      [] op = "switchProject" -> <<Event("project-changed"), Event("data-updated")>>
      [] op = "renameProject" -> <<Event("project-changed")>>
      [] op = "deleteProject" -> <<Event("project-changed"), Event("data-updated")>>
      [] op \in {"saveSpot", "saveRoute", "saveSite", "saveExternalFile"} ->
             <<Event("data-updated")>>
      [] op = "init" -> <<Event("storage-ready"), Event("data-updated")>>
      [] op \in {"pull", "push", "merge"} -> <<Event("data-updated"), Event("project-changed")>>
      [] OTHER -> <<>>
\* switchProject ending with pushMasterToDrive() as the other operations do
PushesAfterSwitch(op) ==
    op \in {"createProject", "switchProject", "renameProject", "deleteProject",
            "saveSpot", "saveRoute", "saveSite", "saveExternalFile"}
\* The operations that end with pushMasterToDrive()
Pushes(op) ==
    op \in {"createProject", "renameProject", "deleteProject", "saveSpot", "saveRoute",
            "saveSite", "saveExternalFile"}

\* A suspended operation goes on: no call is made in this step.
Resumed ==
    /\ outcome' = NoOutcome
    /\ UNCHANGED <<ops, batchVars, pathVars, mergeVars, reportVars>>

\* resolveMasterConflict ends: it has cleared the cache and notified, or it
\* has caught the error of its save or upload and reported it.
ResolutionError == "Resolution Error"
Resolutions == {"pull", "push", "merge"}
Resolved(op, ok) ==
    /\ outcome' = [op |-> op, error |-> IF ok THEN None ELSE ResolutionError]
    /\ UNCHANGED <<ops, batchVars, pathVars, mergeVars, reportVars>>

\* The user clicks Initialize Storage and a backend is selected (persisted
\* is the document that backend holds), or the folder picker is dismissed.
\* An initialisation that failed after loading is not started again.
selectAndInitStorage(aborted) ==
    /\ storage = "none"
    /\ Called("selectAndInitStorage", IF aborted THEN AbortError ELSE None)
    /\ storage' = IF aborted THEN storage ELSE "loading"
    /\ tasks' = IF aborted THEN tasks ELSE Spawn(Task("load", "init", Null))
    /\ emitted' = <<>>
    /\ UNCHANGED <<masterData, remoteMasterCache, persisted, remote, accessToken, uuids>>

\* ensureMasterJson adopting a stored document without the currentProjectId guard
EnsureMasterJsonNoRepair(t) ==
    /\ t \in Suspended /\ t.kind = "load"
    /\ LET data == persisted
           stored == data # Null
           flat == stored /\ ~data[1].hasProjects
           saves == ~stored \/ flat
           loaded == IF ~stored THEN FreshInstall(UUID(uuids))
                     ELSE IF flat THEN Migrated(UUID(uuids), data[1])
                     ELSE data[1]
       IN  /\ masterData' = loaded
           /\ uuids' = IF saves THEN uuids + 1 ELSE uuids
           /\ tasks' = Replace(t, Task(IF saves THEN "save" ELSE "watcher", "init",
                                       IF saves THEN Some(loaded) ELSE Null))
    /\ storage' = "finishing"
    /\ emitted' = <<>>
    /\ Resumed
    /\ UNCHANGED <<remoteMasterCache, persisted, remote, accessToken>>

\* FS.getMasterData() has answered: migrate, adopt or create the document.
EnsureMasterJson(t) ==
    /\ t \in Suspended /\ t.kind = "load"
    /\ LET data == persisted
           stored == data # Null
           flat == stored /\ ~data[1].hasProjects
           saves == ~stored \/ flat
           loaded == IF ~stored THEN FreshInstall(UUID(uuids))
                     ELSE IF flat THEN Migrated(UUID(uuids), data[1])
                     ELSE Repaired(data[1])
       IN  /\ masterData' = loaded
           /\ uuids' = IF saves THEN uuids + 1 ELSE uuids
           /\ tasks' = Replace(t, Task(IF saves THEN "save" ELSE "watcher", "init",
                                       IF saves THEN Some(loaded) ELSE Null))
    /\ storage' = "finishing"
    /\ emitted' = <<>>
    /\ Resumed
    /\ UNCHANGED <<remoteMasterCache, persisted, remote, accessToken>>

\* The continuation of _saveMasterData() where merge, like pull, ends after
\* the local save and uploads nothing.
SaveCompletesMergeNotPushed(t, ok) ==
    /\ t \in Suspended /\ t.kind \in {"save", "watcher"}
    /\ t.kind = "watcher" => ok
    /\ persisted' = IF ok /\ t.kind = "save" THEN t.blob ELSE persisted
    /\ IF ~ok
       THEN /\ emitted' = <<>>
            /\ tasks' = Remove(t)
            /\ storage' = IF t.op = "init" THEN "failed" ELSE storage
            /\ UNCHANGED remoteMasterCache
       ELSE /\ storage' = IF t.op = "init" THEN "ready" ELSE storage
            /\ remoteMasterCache' = IF t.op \in {"pull", "merge"} THEN Null
                                    ELSE remoteMasterCache
            /\ emitted' = Events(t.op)
            /\ tasks' = IF Pushes(t.op) /\ accessToken
                        THEN Replace(t, Task("autopush", "autopush", Null))
                        ELSE Remove(t)
    /\ IF t.op \in {"pull", "merge"} THEN Resolved(t.op, ok) ELSE Resumed
    /\ UNCHANGED <<masterData, remote, accessToken, uuids>>

\* _saveMasterData() (or, for an adopted document, ensureWatcherScript())
\* has settled: the operation goes on after its await, or throws.
SaveCompletes(t, ok) ==
    /\ t \in Suspended /\ t.kind \in {"save", "watcher"}
    /\ t.kind = "watcher" => ok
    /\ persisted' = IF ok /\ t.kind = "save" THEN t.blob ELSE persisted
    /\ IF ~ok
       THEN /\ emitted' = <<>>
            /\ tasks' = Remove(t)
            /\ storage' = IF t.op = "init" THEN "failed" ELSE storage
            /\ UNCHANGED remoteMasterCache
       ELSE /\ storage' = IF t.op = "init" THEN "ready" ELSE storage
            /\ remoteMasterCache' = IF t.op = "pull" THEN Null ELSE remoteMasterCache
            /\ emitted' = IF t.op = "merge" THEN <<>> ELSE Events(t.op)
            /\ tasks' = IF t.op = "merge"
                        THEN Replace(t, Task("upload", "merge", Some(masterData)))
                        ELSE IF Pushes(t.op) /\ accessToken
                             THEN Replace(t, Task("autopush", "autopush", Null))
                             ELSE Remove(t)
    /\ IF t.op = "pull" \/ (t.op = "merge" /\ ~ok) THEN Resolved(t.op, ok) ELSE Resumed
    /\ UNCHANGED <<masterData, remote, accessToken, uuids>>

\* pushMasterToDrive letting the error of a failed request out
PushAnsweredThrowing(t, ok) ==
    /\ t \in Suspended /\ t.kind = "autopush"
    /\ remote' = IF ok THEN Some(masterData) ELSE remote
    /\ tasks' = Remove(t)
    /\ emitted' = <<>>
    /\ outcome' = IF ok THEN NoOutcome ELSE [op |-> "autopush", error |-> "Auto-push failed"]
    /\ UNCHANGED <<ops, batchVars, pathVars, mergeVars, reportVars>>
    /\ UNCHANGED <<masterData, remoteMasterCache, persisted, accessToken, storage, uuids>>

\* pushMasterToDrive: the remote file has been looked up, the document is
\* serialised as it is now and written (the two requests are one step), or
\* a request failed and the error is swallowed.
PushAnswered(t, ok) ==
    /\ t \in Suspended /\ t.kind = "autopush"
    /\ remote' = IF ok THEN Some(masterData) ELSE remote
    /\ tasks' = Remove(t)
    /\ emitted' = <<>>
    /\ Resumed
    /\ UNCHANGED <<masterData, remoteMasterCache, persisted, accessToken, storage, uuids>>

\* updateDriveFile has answered and the conflict stays cached
UploadAnsweredKeepsCache(t, ok) ==
    /\ t \in Suspended /\ t.kind = "upload"
    /\ remote' = IF ok THEN t.blob ELSE remote
    /\ tasks' = Remove(t)
    /\ IF ok /\ t.op \in {"push", "merge"}
       THEN UNCHANGED remoteMasterCache /\ emitted' = Events(t.op)
       ELSE UNCHANGED remoteMasterCache /\ emitted' = <<>>
    /\ IF t.op \in Resolutions THEN Resolved(t.op, ok) ELSE Resumed
    /\ UNCHANGED <<masterData, persisted, accessToken, storage, uuids>>

\* updateDriveFile / uploadFile has answered
UploadAnswered(t, ok) ==
    /\ t \in Suspended /\ t.kind = "upload"
    /\ remote' = IF ok THEN t.blob ELSE remote
    /\ tasks' = Remove(t)
    /\ IF ok /\ t.op \in {"push", "merge"}
       THEN remoteMasterCache' = Null /\ emitted' = Events(t.op)
       ELSE UNCHANGED remoteMasterCache /\ emitted' = <<>>
    /\ IF t.op \in Resolutions THEN Resolved(t.op, ok) ELSE Resumed
    /\ UNCHANGED <<masterData, persisted, accessToken, storage, uuids>>

\* The login button is shown once storage is ready; on success the callback
\* of initAuth starts a check when a document is stored.
RequestLogin ==
    /\ storage = "ready" /\ ~accessToken
    /\ Called("requestLogin", None)
    /\ accessToken' = TRUE
    /\ tasks' = IF persisted # Null THEN Spawn(Task("check", "check", Null)) ELSE tasks
    /\ emitted' = <<>>
    /\ UNCHANGED <<masterData, remoteMasterCache, persisted, remote, storage, uuids>>

checkForRemoteUpdates ==
    /\ storage = "ready"
    /\ Called("checkForRemoteUpdates", None)
    /\ tasks' = IF accessToken THEN Spawn(Task("check", "check", Null)) ELSE tasks
    /\ emitted' = <<>>
    /\ UNCHANGED <<masterData, remoteMasterCache, persisted, remote, accessToken,
                   storage, uuids>>

\* The id of master_data.json on the remote store.
MasterFileId == "master_data.json@drive"
\* reduce((n, p) => n + (p.spots?.length ?? 0), 0)
RECURSIVE SumSpots(_)
SumSpots(projects) ==
    IF projects = <<>> THEN 0 ELSE Len(Head(projects).spots) + SumSpots(Tail(projects))
\* What a check that ended logs: nothing, or the error it caught.
CheckError == "Sync Check Error"
Checked(ok) ==
    /\ outcome' = [op |-> "check", error |-> IF ok THEN None ELSE CheckError]
    /\ UNCHANGED <<ops, batchVars, pathVars, mergeVars, reportVars>>

\* checkForRemoteUpdates reporting the two counts the wrong way round
CheckAnsweredCountsSwapped(t, ok) ==
    /\ t \in Suspended /\ t.kind = "check"
    /\ IF ~ok
       THEN /\ tasks' = Remove(t)
            /\ emitted' = <<>>
            /\ UNCHANGED remoteMasterCache
       ELSE IF remote = Null
       THEN /\ tasks' = Replace(t, Task("autopush", "autopush", Null))
            /\ emitted' = <<>>
            /\ UNCHANGED remoteMasterCache
       ELSE IF generateDataSignature(masterData) = generateDataSignature(remote[1])
       THEN /\ tasks' = Remove(t)
            /\ emitted' = <<>>
            /\ UNCHANGED remoteMasterCache
       ELSE LET remoteData == remote[1]
                localSpotCount == SumSpots(masterData.projects)
                remoteSpotCount == IF remoteData.hasProjects
                                   THEN SumSpots(remoteData.projects)
                                   ELSE Len(remoteData.spots)
            IN  /\ remoteMasterCache' =
                       Some([data |-> remoteData, fileId |-> MasterFileId, aliased |-> FALSE])
                /\ emitted' = <<CustomEvent("master-sync-conflict",
                                            [localCount |-> remoteSpotCount,
                                             remoteCount |-> localSpotCount])>>
                /\ tasks' = Remove(t)
    /\ Checked(ok)
    /\ UNCHANGED <<masterData, persisted, remote, accessToken, storage, uuids>>

\* The remote file has been looked up and read (or a request failed).
CheckAnswered(t, ok) ==
    /\ t \in Suspended /\ t.kind = "check"
    /\ IF ~ok
       THEN /\ tasks' = Remove(t)
            /\ emitted' = <<>>
            /\ UNCHANGED remoteMasterCache
       ELSE IF remote = Null
       THEN /\ tasks' = Replace(t, Task("autopush", "autopush", Null))
            /\ emitted' = <<>>
            /\ UNCHANGED remoteMasterCache
       ELSE IF generateDataSignature(masterData) = generateDataSignature(remote[1])
       THEN /\ tasks' = Remove(t)
            /\ emitted' = <<>>
            /\ UNCHANGED remoteMasterCache
       ELSE LET remoteData == remote[1]
                localSpotCount == SumSpots(masterData.projects)
                remoteSpotCount == IF remoteData.hasProjects
                                   THEN SumSpots(remoteData.projects)
                                   ELSE Len(remoteData.spots)
            IN  /\ remoteMasterCache' =
                       Some([data |-> remoteData, fileId |-> MasterFileId, aliased |-> FALSE])
                /\ emitted' = <<CustomEvent("master-sync-conflict",
                                            [localCount |-> localSpotCount,
                                             remoteCount |-> remoteSpotCount])>>
                /\ tasks' = Remove(t)
    /\ Checked(ok)
    /\ UNCHANGED <<masterData, persisted, remote, accessToken, storage, uuids>>

\* resolveMasterConflict whose pull adopts the remote document as it is, flat
\* or not.
resolveMasterConflictNoMigration(action) ==
    IF remoteMasterCache = Null
    THEN /\ Called("resolveMasterConflict", None)
         /\ emitted' = <<>>
         /\ UNCHANGED <<masterData, remoteMasterCache, persisted, remote, accessToken,
                        storage, tasks, uuids>>
    ELSE /\ Called("resolveMasterConflict", None)
         /\ LET remoteData == CachedRemote
                merged == mergeDatasets(masterData, remoteData, uuids)
            IN  \/ /\ action = "pull"
                   /\ masterData' = remoteData
                   /\ remoteMasterCache' = Some([remoteMasterCache[1] EXCEPT !.data = EmptyMaster, !.aliased = TRUE])
                   /\ tasks' = Spawn(Task("save", "pull", Some(masterData')))
                   /\ UNCHANGED uuids
                \/ /\ action = "push"
                   /\ tasks' = Spawn(Task("upload", "push", Some(masterData)))
                   /\ UNCHANGED <<masterData, remoteMasterCache, uuids>>
                \/ /\ action = "merge"
                   /\ masterData' = merged
                   /\ uuids' = uuids + MergeUuids(masterData, remoteData)
                   /\ remoteMasterCache' = Unaliased
                   /\ tasks' = Spawn(Task("save", "merge", Some(merged)))
         /\ emitted' = <<>>
         /\ UNCHANGED <<persisted, remote, accessToken, storage>>

resolveMasterConflict(action) ==
    IF remoteMasterCache = Null
    THEN /\ Called("resolveMasterConflict", None)
         /\ emitted' = <<>>
         /\ UNCHANGED <<masterData, remoteMasterCache, persisted, remote, accessToken,
                        storage, tasks, uuids>>
    ELSE /\ Called("resolveMasterConflict", None)
         /\ LET remoteData == CachedRemote
                merged == mergeDatasets(masterData, remoteData, uuids)
            IN  \/ /\ action = "pull"
                   /\ masterData' = IF remoteData.hasProjects THEN remoteData
                                    ELSE Migrated(UUID(uuids), remoteData)
                   /\ uuids' = IF remoteData.hasProjects THEN uuids ELSE uuids + 1
                   /\ remoteMasterCache' =
                          IF remoteData.hasProjects
                          THEN Some([remoteMasterCache[1] EXCEPT !.data = EmptyMaster, !.aliased = TRUE])
                          ELSE remoteMasterCache
                   /\ tasks' = Spawn(Task("save", "pull", Some(masterData')))
                \/ /\ action = "push"
                   /\ tasks' = Spawn(Task("upload", "push", Some(masterData)))
                   /\ UNCHANGED <<masterData, remoteMasterCache, uuids>>
                \/ /\ action = "merge"
                   /\ masterData' = merged
                   /\ uuids' = uuids + MergeUuids(masterData, remoteData)
                   /\ remoteMasterCache' = Unaliased
                   /\ tasks' = Spawn(Task("save", "merge", Some(merged)))
         /\ emitted' = <<>>
         /\ UNCHANGED <<persisted, remote, accessToken, storage>>

createProject(name) ==
    /\ ProjectCall("createProject", None)
    /\ LET newId == UUID(uuids)
           newProject == [id |-> newId,
                          name |-> IF name = <<>> THEN UntitledName ELSE name,
                          spots |-> <<>>, routes |-> <<>>]
       IN  masterData' = [masterData EXCEPT !.projects = Append(@, newProject),
                                            !.currentProjectId = newId]
    /\ uuids' = uuids + 1
    /\ tasks' = Spawn(Task("save", "createProject", Some(masterData')))
    /\ emitted' = <<>>
    /\ UNCHANGED <<remoteMasterCache, persisted, remote, accessToken, storage>>

switchProject(projectId) ==
    IF IndexOf(masterData.projects, projectId) = 0
    THEN /\ ProjectCall("switchProject", NotFoundError)
         /\ emitted' = <<>>
         /\ UNCHANGED <<masterData, remoteMasterCache, persisted, remote, accessToken,
                        storage, tasks, uuids>>
    ELSE /\ ProjectCall("switchProject", None)
         /\ masterData' = [masterData EXCEPT !.currentProjectId = projectId]
         /\ tasks' = Spawn(Task("save", "switchProject", Some(masterData')))
         /\ emitted' = <<>>
         /\ UNCHANGED <<remoteMasterCache, persisted, remote, accessToken, storage, uuids>>

renameProject(projectId, newName) ==
    LET k == IndexOf(masterData.projects, projectId)
        error == IF k = 0 THEN NotFoundError
                 ELSE IF Trim(newName) = <<>> THEN EmptyNameError
                 ELSE None
    IN  IF error # None
        THEN /\ ProjectCall("renameProject", error)
             /\ emitted' = <<>>
             /\ UNCHANGED <<masterData, remoteMasterCache, persisted, remote, accessToken,
                            storage, tasks, uuids>>
        ELSE /\ ProjectCall("renameProject", None)
             /\ masterData' = [masterData EXCEPT !.projects[k].name = Trim(newName)]
             /\ tasks' = Spawn(Task("save", "renameProject", Some(masterData')))
             /\ emitted' = <<>>
             /\ UNCHANGED <<remoteMasterCache, persisted, remote, accessToken, storage,
                            uuids>>

\* deleteProject with the guard off by one (length < 1): the last project is
\* filtered out, and reading the first of no projects throws.
deleteProjectOffByOne(projectId) ==
    IF Len(masterData.projects) < 1
    THEN /\ ProjectCall("deleteProject", LastProjectError)
         /\ emitted' = <<>>
         /\ UNCHANGED <<masterData, remoteMasterCache, persisted, remote, accessToken,
                        storage, tasks, uuids>>
    ELSE LET kept == SelectSeq(masterData.projects, LAMBDA p : p.id # projectId)
             throws == kept = <<>> /\ masterData.currentProjectId = projectId
         IN  /\ ProjectCall("deleteProject", IF throws THEN "TypeError" ELSE None)
             /\ masterData' =
                    [masterData EXCEPT !.projects = kept,
                                       !.currentProjectId =
                                           IF @ = projectId /\ ~throws THEN kept[1].id ELSE @]
             /\ tasks' = IF throws THEN tasks
                         ELSE Spawn(Task("save", "deleteProject", Some(masterData')))
             /\ emitted' = <<>>
             /\ UNCHANGED <<remoteMasterCache, persisted, remote, accessToken, storage,
                            uuids>>

deleteProject(projectId) ==
    IF Len(masterData.projects) <= 1
    THEN /\ ProjectCall("deleteProject", LastProjectError)
         /\ emitted' = <<>>
         /\ UNCHANGED <<masterData, remoteMasterCache, persisted, remote, accessToken,
                        storage, tasks, uuids>>
    ELSE /\ ProjectCall("deleteProject", None)
         /\ LET kept == SelectSeq(masterData.projects, LAMBDA p : p.id # projectId)
            IN  masterData' =
                    [masterData EXCEPT !.projects = kept,
                                       !.currentProjectId =
                                           IF @ = projectId THEN kept[1].id ELSE @]
         /\ tasks' = Spawn(Task("save", "deleteProject", Some(masterData')))
         /\ emitted' = <<>>
         /\ UNCHANGED <<remoteMasterCache, persisted, remote, accessToken, storage, uuids>>

\* The timestamp of a new entity is the time of the call.
saveRoute ==
    IF getActiveProject = 0
    THEN /\ ProjectCall("saveRoute", NoActiveProjectError)
         /\ emitted' = <<>>
         /\ UNCHANGED <<masterData, remoteMasterCache, persisted, remote, accessToken,
                        storage, tasks, uuids>>
    ELSE /\ ProjectCall("saveRoute", None)
         /\ masterData' = [masterData EXCEPT !.projects[getActiveProject].routes =
                               Append(@, [id |-> UUID(uuids), timestamp |-> ops + 1,
                                           name |-> <<"n">>])]
         /\ uuids' = uuids + 1
         /\ tasks' = Spawn(Task("save", "saveRoute", Some(masterData')))
         /\ emitted' = <<>>
         /\ UNCHANGED <<remoteMasterCache, persisted, remote, accessToken, storage>>

\* saveSpot without media: spotData.spotId is that of the spot being
\* edited, or is absent for a new spot.
SpotIdArgs == {Null, Some(OldSpot.spotId)}
saveSpot(spotId) ==
    IF getActiveProject = 0
    THEN /\ ProjectCall("saveSpot", NoActiveProjectError)
         /\ emitted' = <<>>
         /\ UNCHANGED <<masterData, remoteMasterCache, persisted, remote, accessToken,
                        storage, tasks, uuids>>
    ELSE /\ ProjectCall("saveSpot", None)
         /\ masterData' = [masterData EXCEPT !.projects[getActiveProject].spots =
                               Append(@, [spotId |-> IF spotId # Null THEN spotId[1]
                                                     ELSE UUID(uuids),
                                           timestamp |-> ops + 1, name |-> <<"n">>])]
         /\ uuids' = IF spotId # Null THEN uuids ELSE uuids + 1
         /\ tasks' = Spawn(Task("save", "saveSpot", Some(masterData')))
         /\ emitted' = <<>>
         /\ UNCHANGED <<remoteMasterCache, persisted, remote, accessToken, storage>>

\* Another installation, or an earlier session of this one, replaces the
\* remote document.  The program reads the remote store only when logged
\* in: what was written before the login is written right after it.
OtherDeviceWrites(doc) ==
    /\ accessToken
    /\ remote # Some(doc)
    /\ remote' = Some(doc)
    /\ emitted' = <<>>
    /\ Resumed
    /\ UNCHANGED <<masterData, remoteMasterCache, persisted, accessToken, storage,
                   tasks, uuids>>

InitMaster ==
    /\ masterData = EmptyMaster
    /\ remoteMasterCache = Null
    /\ persisted \in LocalDocs
    /\ remote = Null
    /\ accessToken = FALSE
    /\ storage = StorageNone
    /\ tasks = EmptyBag
    /\ ops = 0 /\ uuids = 0 /\ outcome = NoOutcome /\ emitted = <<>>
    /\ isSyncing = FALSE /\ batch = <<>> /\ log = <<>> /\ localFiles = {} /\ remoteFiles = {}
    /\ folderCache = {} /\ promises = <<>> /\ callers = <<>>
    /\ folders = {} /\ microtasks = <<>>
    /\ localDoc = EmptyMaster /\ remoteDoc = EmptyMaster /\ mergedDoc = Null
    /\ swappedDoc = Null /\ reloadedDoc = Null /\ signatures = Null
    /\ driveFiles = <<>> /\ syncReport = Null /\ syncStatuses = Null

NextMaster ==
    \/ \E aborted \in BOOLEAN : selectAndInitStorage(aborted)
    \/ \E t \in Suspended : EnsureMasterJson(t)
    \/ \E t \in Suspended, ok \in BOOLEAN : SaveCompletes(t, ok)
    \/ \E t \in Suspended, ok \in BOOLEAN : PushAnswered(t, ok)
    \/ \E t \in Suspended, ok \in BOOLEAN : UploadAnswered(t, ok)
    \/ RequestLogin
    \/ checkForRemoteUpdates
    \/ \E t \in Suspended, ok \in BOOLEAN : CheckAnswered(t, ok)
    \/ \E action \in {"pull", "push", "merge"} : resolveMasterConflict(action)
    \/ \E name \in CreateNames : createProject(name)
    \/ \E projectId \in ProjectIdArgs : switchProject(projectId)
    \/ \E projectId \in ProjectIdArgs, newName \in RenameNames :
           renameProject(projectId, newName)
    \/ \E projectId \in ProjectIdArgs : deleteProject(projectId)
    \/ saveRoute
    \/ \E doc \in OtherDeviceDocs : OtherDeviceWrites(doc)

SpecMaster == InitMaster /\ [][NextMaster]_vars

\* The master document under the operations that add entities and projects
\* and under the conflict resolutions: spots are saved as well as routes,
\* and no project is switched to, renamed or deleted.
NextEntities ==
    \/ \E aborted \in BOOLEAN : selectAndInitStorage(aborted)
    \/ \E t \in Suspended : EnsureMasterJson(t)
    \/ \E t \in Suspended, ok \in BOOLEAN : SaveCompletes(t, ok)
    \/ \E t \in Suspended, ok \in BOOLEAN : PushAnswered(t, ok)
    \/ \E t \in Suspended, ok \in BOOLEAN : UploadAnswered(t, ok)
    \/ RequestLogin
    \/ checkForRemoteUpdates
    \/ \E t \in Suspended, ok \in BOOLEAN : CheckAnswered(t, ok)
    \/ \E action \in {"pull", "push", "merge"} : resolveMasterConflict(action)
    \/ \E name \in CreateNames : createProject(name)
    \/ saveRoute
    \/ \E spotId \in SpotIdArgs : saveSpot(spotId)
    \/ \E doc \in OtherDeviceDocs : OtherDeviceWrites(doc)

SpecEntities == InitMaster /\ [][NextEntities]_vars

\* A session that has loaded its document and logged in: the stored document
\* is the one in memory; the remote store has no document, the same one, or
\* another device's, and in that case the conflict may already be pending.
InitSession ==
    /\ masterData \in {OneProjectDoc, TwoProjectDoc}
    /\ persisted = Some(masterData)
    /\ storage = "ready" /\ accessToken = TRUE
    /\ \/ remote \in {Null, Some(masterData), Some(ForeignDoc)} /\ remoteMasterCache = Null
       \/ /\ remote = Some(ForeignDoc)
          /\ remoteMasterCache =
                 Some([data |-> ForeignDoc, fileId |-> MasterFileId, aliased |-> FALSE])
    /\ tasks = EmptyBag
    /\ ops = 0 /\ uuids = 0 /\ outcome = NoOutcome /\ emitted = <<>>
    /\ isSyncing = FALSE /\ batch = <<>> /\ log = <<>> /\ localFiles = {} /\ remoteFiles = {}
    /\ folderCache = {} /\ promises = <<>> /\ callers = <<>>
    /\ folders = {} /\ microtasks = <<>>
    /\ localDoc = EmptyMaster /\ remoteDoc = EmptyMaster /\ mergedDoc = Null
    /\ swappedDoc = Null /\ reloadedDoc = Null /\ signatures = Null
    /\ driveFiles = <<>> /\ syncReport = Null /\ syncStatuses = Null

NextSession ==
    \/ \E t \in Suspended, ok \in BOOLEAN : SaveCompletes(t, ok)
    \/ \E t \in Suspended, ok \in BOOLEAN : PushAnswered(t, ok)
    \/ \E t \in Suspended, ok \in BOOLEAN : UploadAnswered(t, ok)
    \/ checkForRemoteUpdates
    \/ \E t \in Suspended, ok \in BOOLEAN : CheckAnswered(t, ok)
    \/ \E action \in {"pull", "push", "merge"} : resolveMasterConflict(action)
    \/ saveRoute
    \/ \E doc \in OtherDeviceDocs : OtherDeviceWrites(doc)

SpecSession == InitSession /\ [][NextSession]_vars

(***************************************************************************)
(* Claims about project management and the master document                 *)
(***************************************************************************)
\* The step is a call of op: every other step resets or overwrites outcome.
CallOf(op) == ops' = ops + 1 /\ outcome'.op = op

\* C7: for every project, the folder name getProjectFolderName returns is the
\* same before and after a renameProject call, and so after any sequence of
\* them: renaming changes the name only, never the id or the folder name.
C7_FolderNameStable ==
    [][(CallOf("renameProject") /\ outcome'.error = None) =>
           /\ Len(masterData'.projects) = Len(masterData.projects)
           /\ \A i \in 1..Len(masterData.projects) :
                  /\ masterData'.projects[i].id = masterData.projects[i].id
                  /\ getProjectFolderName(Some(masterData'.projects[i]))
                         = getProjectFolderName(Some(masterData.projects[i]))]_vars

\* C8: deleteProject called when exactly one project exists throws the
\* validation error, leaves the in-memory, the persisted and the remote
\* document unchanged, starts no save or push, and dispatches no event.
C8_LastProjectKept ==
    [][(CallOf("deleteProject") /\ Len(masterData.projects) = 1) =>
           /\ outcome'.error = LastProjectError
           /\ masterData' = masterData
           /\ persisted' = persisted
           /\ remote' = remote
           /\ tasks' = tasks
           /\ emitted' = <<>>]_vars
\* the only project of an initialised store was asked to be deleted
C8_Witness ==
    /\ storage = "ready"
    /\ outcome = [op |-> "deleteProject", error |-> LastProjectError]
    /\ Len(masterData.projects) = 1
    /\ persisted # Null

\* C9: once the document has been loaded, the in-memory master document has
\* a projects array with at least one project, in every reachable state.
C9_AtLeastOneProject ==
    Loaded => masterData.hasProjects /\ Len(masterData.projects) >= 1
\* a project has just been deleted, leaving one
C9_Witness ==
    /\ storage = "ready"
    /\ outcome = [op |-> "deleteProject", error |-> None]
    /\ Len(masterData.projects) = 1

NewerSpot == [spotId |-> <<"s", "1">>, timestamp |-> 1, name |-> <<"n">>]
\* the old spot with another name and the same timestamp
RenamedSpot == [spotId |-> <<"s", "1">>, timestamp |-> 0, name |-> <<"m">>]
NoEntities == [spots |-> <<>>, routes |-> <<>>]
OldEntities == [spots |-> <<OldSpot>>, routes |-> <<OldRoute>>]
MoreEntities == [spots |-> <<OldSpot, OtherSpot>>, routes |-> <<NewerRoute>>]
EntityChoices ==
    {NoEntities, OldEntities, MoreEntities,
     [spots |-> <<NewerSpot>>, routes |-> <<OldRoute>>],
     [spots |-> <<RenamedSpot>>, routes |-> <<OldRoute>>],
     [spots |-> <<OtherSpot, OldSpot>>, routes |-> <<NewerRoute>>]}

ProjectWith(id, name, e) == [id |-> id, name |-> name, spots |-> e.spots, routes |-> e.routes]
ProjectsA == {ProjectWith(OldId(1), name, e) : name \in {<<"a">>, <<"c">>}, e \in EntityChoices}
ProjectsB == {ProjectWith(OldId(2), <<"b">>, e) : e \in {NoEntities, OldEntities, MoreEntities}}

\* A project-schema document whose active project is its first one.
DocOf(projects) ==
    [hasProjects |-> TRUE,
     currentProjectId |-> IF projects = <<>> THEN Null ELSE projects[1].id,
     projects |-> projects, spots |-> <<>>, routes |-> <<>>]
ProjectDocs ==
    {DocOf(<<>>)} \cup {DocOf(<<a>>) : a \in ProjectsA} \cup {DocOf(<<b>>) : b \in ProjectsB}
    \cup {DocOf(<<a, b>>) : a \in ProjectsA, b \in ProjectsB}
    \cup {DocOf(<<b, a>>) : a \in ProjectsA, b \in ProjectsB}
MergeDocs == ProjectDocs \cup {FlatDoc}

\* JSON.stringify: the JSON text, as the tree of its values.  An object is
\* the sequence of its members <<key, value>> in property order; a property
\* whose value is undefined is left out.
JsonValue(type, value) == [type |-> type, value |-> value]
\* A timestamp is kept as the instant its ISO string denotes.
StringifyItem(item) ==
    JsonValue("object",
              <<(IF "spotId" \in DOMAIN item
                 THEN <<"spotId", JsonValue("string", item.spotId)>>
                 ELSE <<"id", JsonValue("string", item.id)>>),
                <<"timestamp", JsonValue("number", item.timestamp)>>,
                <<"name", JsonValue("string", item.name)>>>>)
StringifyItems(items) ==
    JsonValue("array", [i \in 1..Len(items) |-> StringifyItem(items[i])])
StringifyProject(p) ==
    JsonValue("object",
              <<<<"id", JsonValue("string", p.id)>>,
                <<"name", JsonValue("string", p.name)>>,
                <<"spots", StringifyItems(p.spots)>>,
                <<"routes", StringifyItems(p.routes)>>>>)
Stringify(data) ==
    IF data.hasProjects
    THEN JsonValue("object",
                   <<<<"currentProjectId",
                       IF data.currentProjectId = Null THEN JsonValue("null", <<>>)
                       ELSE JsonValue("string", data.currentProjectId)>>,
                     <<"projects",
                       JsonValue("array", [i \in 1..Len(data.projects) |->
                                              StringifyProject(data.projects[i])])>>>>)
    ELSE JsonValue("object", <<<<"spots", StringifyItems(data.spots)>>,
                               <<"routes", StringifyItems(data.routes)>>>>)

\* JSON.parse, and the reads the program makes of the parsed object
Has(object, key) == \E i \in 1..Len(object.value) : object.value[i][1] = key
Get(object, key) ==
    object.value[CHOOSE i \in 1..Len(object.value) : object.value[i][1] = key][2]
ParseItem(object) ==
    IF Has(object, "spotId")
    THEN [spotId |-> Get(object, "spotId").value, timestamp |-> Get(object, "timestamp").value,
          name |-> Get(object, "name").value]
    ELSE [id |-> Get(object, "id").value, timestamp |-> Get(object, "timestamp").value,
          name |-> Get(object, "name").value]
\* a parser that loses the entity arrays
ParseItemsLost(object, key) == <<>>
ParseItems(object, key) ==
    IF Has(object, key)
    THEN [i \in 1..Len(Get(object, key).value) |-> ParseItem(Get(object, key).value[i])]
    ELSE <<>>
ParseProject(object) ==
    [id |-> Get(object, "id").value, name |-> Get(object, "name").value,
     spots |-> ParseItems(object, "spots"), routes |-> ParseItems(object, "routes")]
Parse(object) ==
    [hasProjects |-> Has(object, "projects"),
     currentProjectId |->
         IF Has(object, "currentProjectId") /\ Get(object, "currentProjectId").type = "string"
         THEN Get(object, "currentProjectId").value
         ELSE Null,
     projects |->
         IF Has(object, "projects")
         THEN [i \in 1..Len(Get(object, "projects").value) |->
                   ParseProject(Get(object, "projects").value[i])]
         ELSE <<>>,
     spots |-> ParseItems(object, "spots"),
     routes |-> ParseItems(object, "routes")]

\* What the mergeDatasets call of one step leaves of the other variables.
MergeStep(generated) ==
    /\ uuids' = uuids + generated
    /\ UNCHANGED <<localDoc, remoteDoc, batchVars, pathVars, reportVars>>
    /\ UNCHANGED <<masterData, remoteMasterCache, persisted, remote, accessToken,
                   storage, tasks, ops, outcome, emitted>>

\* merged = mergeDatasets(masterData, remoteData)
MergeLocalRemote ==
    /\ mergedDoc = Null
    /\ mergedDoc' = Some(mergeDatasets(localDoc, remoteDoc, uuids))
    /\ MergeStep(MergeUuids(localDoc, remoteDoc))
    /\ UNCHANGED <<swappedDoc, reloadedDoc, signatures>>

\* the same call on the other device: its local document is remoteDoc
MergeRemoteLocal ==
    /\ swappedDoc = Null
    /\ swappedDoc' = Some(mergeDatasets(remoteDoc, localDoc, uuids))
    /\ MergeStep(MergeUuids(remoteDoc, localDoc))
    /\ UNCHANGED <<mergedDoc, reloadedDoc, signatures>>

\* localSig and remoteSig of checkForRemoteUpdates
SignBoth ==
    /\ signatures = Null
    /\ signatures' = Some(<<generateDataSignature(localDoc), generateDataSignature(remoteDoc)>>)
    /\ MergeStep(0)
    /\ UNCHANGED <<mergedDoc, swappedDoc, reloadedDoc>>

\* The document is serialised and written to the remote store (push), read
\* back and parsed (checkForRemoteUpdates), and adopted (pull).
PushThenPull ==
    /\ reloadedDoc = Null
    /\ LET text == Stringify(localDoc)
           remoteData == Parse(text)
       IN  /\ reloadedDoc' = Some(IF remoteData.hasProjects THEN remoteData
                                  ELSE Migrated(UUID(uuids), remoteData))
           /\ MergeStep(IF remoteData.hasProjects THEN 0 ELSE 1)
    /\ UNCHANGED <<mergedDoc, swappedDoc, signatures>>

InitMerge ==
    /\ localDoc \in MergeDocs /\ remoteDoc \in MergeDocs
    /\ mergedDoc = Null /\ swappedDoc = Null /\ reloadedDoc = Null /\ signatures = Null
    /\ driveFiles = <<>> /\ syncReport = Null /\ syncStatuses = Null
    /\ masterData = EmptyMaster /\ remoteMasterCache = Null /\ persisted = Null
    /\ remote = Null /\ accessToken = FALSE /\ storage = StorageNone
    /\ tasks = EmptyBag /\ ops = 0 /\ uuids = 0 /\ outcome = NoOutcome
    /\ emitted = <<>>
    /\ isSyncing = FALSE /\ batch = <<>> /\ log = <<>> /\ localFiles = {} /\ remoteFiles = {}
    /\ folderCache = {} /\ promises = <<>> /\ callers = <<>>
    /\ folders = {} /\ microtasks = <<>>

NextMerge ==
    \/ MergeLocalRemote
    \/ MergeRemoteLocal
    \/ SignBoth
    \/ PushThenPull

SpecMerge == InitMerge /\ [][NextMerge]_vars

(***************************************************************************)
(* Claims about merging and signatures                                     *)
(***************************************************************************)
ProjectIds(data) == {data.projects[i].id : i \in 1..Len(data.projects)}
ProjectOf(data, id) == data.projects[IndexOf(data.projects, id)]
ItemIds(items) == {ItemId(items[i]) : i \in 1..Len(items)}
ItemWith(items, id) == items[MapIndex(items, id)]
SharedProjects == ProjectIds(localDoc) \cap ProjectIds(remoteDoc)

\* An array is the by-id, later-timestamp-wins union of two arrays.
IsUnionByTimestamp(result, localItems, remoteItems) ==
    /\ Len(result) = Cardinality(ItemIds(result))
    /\ ItemIds(result) = ItemIds(localItems) \cup ItemIds(remoteItems)
    /\ \A id \in ItemIds(result) :
           ItemWith(result, id) =
               IF id \notin ItemIds(remoteItems) THEN ItemWith(localItems, id)
               ELSE IF id \notin ItemIds(localItems) THEN ItemWith(remoteItems, id)
               ELSE IF ItemWith(remoteItems, id).timestamp > ItemWith(localItems, id).timestamp
                    THEN ItemWith(remoteItems, id)
                    ELSE ItemWith(localItems, id)

\* C11: for a project in both documents, each entity array of the merged
\* project has exactly one entry per entity id occurring on either side; an
\* id on one side keeps that side's entry, an id on both sides gets the
\* remote entry when its timestamp is larger and keeps the local entry
\* otherwise.
C11_LaterTimestampWins ==
    mergedDoc # Null =>
        \A id \in SharedProjects :
            /\ id \in ProjectIds(mergedDoc[1])
            /\ IsUnionByTimestamp(ProjectOf(mergedDoc[1], id).spots,
                                  ProjectOf(localDoc, id).spots,
                                  ProjectOf(remoteDoc, id).spots)
            /\ IsUnionByTimestamp(ProjectOf(mergedDoc[1], id).routes,
                                  ProjectOf(localDoc, id).routes,
                                  ProjectOf(remoteDoc, id).routes)
\* a project of both documents was merged: its route is newer on the remote
\* side and replaced the local one, its spot has the same timestamp on both
\* sides and another name, and the local one was kept; a second spot is on
\* the remote side only
C11_Witness ==
    /\ mergedDoc # Null
    /\ \E id \in SharedProjects :
           /\ ProjectOf(localDoc, id).routes = <<OldRoute>>
           /\ ProjectOf(mergedDoc[1], id).routes = <<NewerRoute>>
           /\ ProjectOf(localDoc, id).spots = <<RenamedSpot>>
           /\ ProjectOf(remoteDoc, id).spots = <<OtherSpot, OldSpot>>
           /\ ProjectOf(mergedDoc[1], id).spots = <<RenamedSpot, OtherSpot>>

ProjectSet(data) == {data.projects[i] : i \in 1..Len(data.projects)}

\* C12: merging is idempotent: for every document A in the project schema,
\* the signature of mergeDatasets(A, A) equals the signature of A.
C12_MergeIdempotent ==
    (mergedDoc # Null /\ localDoc = remoteDoc /\ localDoc.hasProjects) =>
        generateDataSignature(mergedDoc[1]) = generateDataSignature(localDoc)
\* a document of two projects with entities was merged with itself
C12_Witness ==
    /\ mergedDoc # Null /\ localDoc = remoteDoc
    /\ Len(localDoc.projects) = 2
    /\ \A i \in 1..2 : localDoc.projects[i].spots # <<>>

\* C13: merging is commutative on disjoint projects: for documents in the
\* project schema that share no project id, mergeDatasets(A, B) and
\* mergeDatasets(B, A) hold the same projects with the same entities, and
\* their signatures are equal.
C13_MergeCommutesOnDisjoint ==
    (/\ mergedDoc # Null /\ swappedDoc # Null
     /\ localDoc.hasProjects /\ remoteDoc.hasProjects
     /\ SharedProjects = {}) =>
        /\ ProjectSet(mergedDoc[1]) = ProjectSet(swappedDoc[1])
        /\ Len(mergedDoc[1].projects) = Len(swappedDoc[1].projects)
        /\ generateDataSignature(mergedDoc[1]) = generateDataSignature(swappedDoc[1])
\* two documents of one project each, with entities, were merged both ways:
\* the results list the two projects in opposite orders
C13_Witness ==
    /\ mergedDoc # Null /\ swappedDoc # Null
    /\ Len(localDoc.projects) = 1 /\ Len(remoteDoc.projects) = 1
    /\ SharedProjects = {}
    /\ localDoc.projects[1].spots # <<>> /\ remoteDoc.projects[1].spots # <<>>
    /\ mergedDoc[1].projects = <<localDoc.projects[1], remoteDoc.projects[1]>>
    /\ swappedDoc[1].projects = <<remoteDoc.projects[1], localDoc.projects[1]>>

\* C14: merging a local document in the project schema with a remote one,
\* every project on one side only is in the result with its entity arrays
\* unchanged (a flat remote document counts as its one default project), the
\* result has exactly the projects of either side, once each, and its
\* currentProjectId is the local one.
C14_OneSidedProjectsKept ==
    (mergedDoc # Null /\ localDoc.hasProjects) =>
        /\ mergedDoc[1].currentProjectId = localDoc.currentProjectId
        /\ Len(mergedDoc[1].projects) = Cardinality(ProjectIds(mergedDoc[1]))
        /\ \A id \in ProjectIds(localDoc) \ ProjectIds(remoteDoc) :
               /\ id \in ProjectIds(mergedDoc[1])
               /\ ProjectOf(mergedDoc[1], id) = ProjectOf(localDoc, id)
        /\ remoteDoc.hasProjects =>
               /\ ProjectIds(mergedDoc[1]) = ProjectIds(localDoc) \cup ProjectIds(remoteDoc)
               /\ \A id \in ProjectIds(remoteDoc) \ ProjectIds(localDoc) :
                      ProjectOf(mergedDoc[1], id) = ProjectOf(remoteDoc, id)
        /\ ~remoteDoc.hasProjects =>
               /\ Len(mergedDoc[1].projects) = Len(localDoc.projects) + 1
               /\ ProjectIds(localDoc) \subseteq ProjectIds(mergedDoc[1])
               /\ LET p == mergedDoc[1].projects[Len(mergedDoc[1].projects)]
                  IN  p.spots = remoteDoc.spots /\ p.routes = remoteDoc.routes
\* the local document has project B only, the remote one project A only,
\* each with entities, and the remote document names its own project as the
\* current one
C14_Witness ==
    /\ mergedDoc # Null
    /\ localDoc.hasProjects /\ remoteDoc.hasProjects
    /\ ProjectIds(localDoc) = {OldId(2)} /\ ProjectIds(remoteDoc) = {OldId(1)}
    /\ localDoc.projects[1].spots # <<>> /\ remoteDoc.projects[1].routes = <<NewerRoute>>
    /\ Len(mergedDoc[1].projects) = 2
    /\ remoteDoc.currentProjectId # localDoc.currentProjectId

EntityPairs(items) == {<<ItemId(items[i]), items[i].timestamp>> : i \in 1..Len(items)}
EntitiesOf(data) ==
    {[id |-> p.id, spots |-> EntityPairs(p.spots), routes |-> EntityPairs(p.routes)] :
         p \in ProjectSet(data)}
NamedEntitiesOf(data) ==
    {[id |-> p.id, name |-> p.name,
      spots |-> EntityPairs(p.spots), routes |-> EntityPairs(p.routes)] :
         p \in ProjectSet(data)}

TotalSpots(data) ==
    IF data.hasProjects
    THEN Cardinality(UNION {{<<i, j>> : j \in 1..Len(data.projects[i].spots)} :
                                i \in 1..Len(data.projects)})
    ELSE Len(data.spots)
Dispatched(type) == \E i \in 1..Len(emitted') : emitted'[i].type = type
\* The step ends a check that found and read a remote document.
CheckFetched == outcome'.op = "check" /\ outcome'.error = None /\ remote # Null

\* C16: a check that finds a remote document caches that document with its
\* file id and dispatches master-sync-conflict, with the numbers of spots
\* of all projects of the local and of the remote document, if the
\* signatures of the two documents differ; if they are equal it caches
\* nothing and dispatches nothing.  Nothing else dispatches the event.
C16_ConflictIffSignaturesDiffer ==
    [][/\ CheckFetched =>
              IF generateDataSignature(masterData) # generateDataSignature(remote[1])
              THEN /\ remoteMasterCache' # Null
                   /\ remoteMasterCache'[1].data = remote[1]
                   /\ remoteMasterCache'[1].fileId = MasterFileId
                   /\ Len(emitted') = 1
                   /\ emitted'[1].type = "master-sync-conflict"
                   /\ emitted'[1].detail = Some([localCount |-> TotalSpots(masterData),
                                                 remoteCount |-> TotalSpots(remote[1])])
              ELSE /\ remoteMasterCache' = remoteMasterCache
                   /\ emitted' = <<>>
       /\ Dispatched("master-sync-conflict") =>
              /\ CheckFetched
              /\ generateDataSignature(masterData) # generateDataSignature(remote[1])]_vars
\* a check has just found the document another device wrote: one local spot
\* against two remote ones
C16_Witness ==
    /\ outcome = [op |-> "check", error |-> None]
    /\ remoteMasterCache # Null
    /\ remoteMasterCache[1].data = ForeignDoc /\ remote = Some(ForeignDoc)
    /\ emitted = <<CustomEvent("master-sync-conflict", [localCount |-> 1, remoteCount |-> 2])>>

RECURSIVE Concat(_)
Concat(seqs) == IF seqs = <<>> THEN <<>> ELSE Head(seqs) \o Concat(Tail(seqs))
SpotsIn(data) ==
    IF data.hasProjects
    THEN Concat([i \in 1..Len(data.projects) |-> data.projects[i].spots])
    ELSE data.spots
RoutesIn(data) ==
    IF data.hasProjects
    THEN Concat([i \in 1..Len(data.projects) |-> data.projects[i].routes])
    ELSE data.routes

\* C20: pull makes the cached remote document the in-memory document, as it
\* is when it has projects and as one default project holding its entities
\* when it has none, and saves it; the in-memory document is then in the
\* project schema and has exactly the entities of the cached document.  When
\* the pull ends the saved document is the persisted one unless the save
\* failed.  No step of a pull writes to the remote store or starts a push.
C20_PullAdoptsRemote ==
    [][/\ \A t \in BagToSet(tasks') :
              (t.kind = "save" /\ t.op = "pull" /\ CopiesIn(t, tasks') > CopiesIn(t, tasks)) =>
                  /\ remoteMasterCache # Null
                  /\ masterData'.hasProjects
                  /\ CachedRemote.hasProjects => masterData' = CachedRemote
                  /\ ~CachedRemote.hasProjects =>
                         /\ Len(masterData'.projects) = 1
                         /\ masterData'.currentProjectId = masterData'.projects[1].id
                  /\ SpotsIn(masterData') = SpotsIn(CachedRemote)
                  /\ RoutesIn(masterData') = RoutesIn(CachedRemote)
                  /\ t.blob = Some(masterData')
                  /\ tasks' = Spawn(t)
                  /\ UNCHANGED <<persisted, remote>>
       /\ outcome'.op = "pull" =>
              /\ UNCHANGED <<masterData, remote>>
              /\ \E t \in Suspended :
                     /\ t.kind = "save" /\ t.op = "pull"
                     /\ tasks' = Remove(t)
                     /\ persisted' = IF outcome'.error = None THEN t.blob ELSE persisted]_vars
\* a flat remote document has been pulled: the in-memory and the persisted
\* document have one default project with its spot and its route, the
\* remote document is the flat one still
C20_Witness ==
    /\ outcome = [op |-> "pull", error |-> None]
    /\ remote = Some(FlatDoc)
    /\ persisted = Some(masterData)
    /\ Len(masterData.projects) = 1
    /\ masterData.projects[1].name = DefaultName
    /\ masterData.projects[1].spots = <<OldSpot>>
    /\ masterData.projects[1].routes = <<OldRoute>>

\* ---------------------------------------------------------------------------
\* js/media_sync.js: generateSyncReport and getAllProjectsSyncStatus, as
\* functions of the document, the local store and the remote listing.
\* A path is a sequence of characters; a remote object is
\* [id, relativePath], relativePath being Null when the object is untagged.
\* ---------------------------------------------------------------------------

\* String.prototype.startsWith
StartsWith(s, prefix) == Len(s) >= Len(prefix) /\ SubSeq(s, 1, Len(prefix)) = prefix

\* spots.forEach: the image path, then the audio path, where set
RECURSIVE SpotFiles(_)
SpotFiles(spots) ==
    IF spots = <<>> THEN <<>>
    ELSE Head(spots).image_local_filename \o Head(spots).audio_local_filename
             \o SpotFiles(Tail(spots))
\* sites.forEach(kml_filename) and external_files.forEach(local_path)
RECURSIVE FieldFiles(_, _)
FieldFiles(items, field) ==
    IF items = <<>> THEN <<>> ELSE Head(items)[field] \o FieldFiles(Tail(items), field)
\* expectedFiles: routes have no file
ExpectedFiles(project) ==
    SpotFiles(project.spots) \o FieldFiles(project.sites, "kml_filename")
        \o FieldFiles(project.external_files, "local_path")

\* Position of the key in a Map kept in insertion order, 0 when absent.
KeyIndex(map, path) ==
    IF \E i \in 1..Len(map) : map[i].relativePath = Some(path)
    THEN CHOOSE i \in 1..Len(map) : map[i].relativePath = Some(path)
    ELSE 0
\* driveMap of generateSyncReport keeping every tagged object, whatever its folder
RECURSIVE DriveMapUnfiltered(_, _, _)
DriveMapUnfiltered(map, files, prefix) ==
    IF files = <<>> THEN map
    ELSE LET f == Head(files)
             k == IF f.relativePath = Null THEN 0 ELSE KeyIndex(map, f.relativePath[1])
             next == IF f.relativePath = Null THEN map
                     ELSE IF k = 0 THEN Append(map, f)
                     ELSE [map EXCEPT ![k] = f]
         IN  DriveMapUnfiltered(next, Tail(files), prefix)
\* driveMap: the objects tagged with a path under the project folder, a later
\* object replacing an earlier one that has the same path
RECURSIVE DriveMap(_, _, _)
DriveMap(map, files, prefix) ==
    IF files = <<>> THEN map
    ELSE LET f == Head(files)
             under == f.relativePath # Null /\ StartsWith(f.relativePath[1], prefix)
             k == IF under THEN KeyIndex(map, f.relativePath[1]) ELSE 0
             next == IF ~under THEN map
                     ELSE IF k = 0 THEN Append(map, f)
                     ELSE [map EXCEPT ![k] = f]
         IN  DriveMap(next, Tail(files), prefix)

SeqRange(s) == {s[i] : i \in 1..Len(s)}

\* The report of a project that was found: one record per expected path,
\* then one per remote path of the folder that is not expected.
ReportOf(project, files, local) ==
    LET projectFolder == getProjectFolderName(Some(project))
        driveMap == DriveMap(<<>>, files, projectFolder \o <<"/">>)
        expectedFiles == ExpectedFiles(project)
        tracked == [i \in 1..Len(expectedFiles) |->
                      LET relPath == expectedFiles[i]
                          k == KeyIndex(driveMap, relPath)
                      IN  [name |-> relPath, isLocal |-> relPath \in local,
                           isDrive |-> k # 0,
                           driveId |-> IF k # 0 THEN driveMap[k].id ELSE None]]
        NotProcessed(f) == f.relativePath[1] \notin SeqRange(expectedFiles)
        driveOnly == SelectSeq(driveMap, NotProcessed)
    IN  tracked \o [i \in 1..Len(driveOnly) |->
                      [name |-> driveOnly[i].relativePath[1], isLocal |-> FALSE,
                       isDrive |-> TRUE, driveId |-> driveOnly[i].id]]

\* isSynced without the second check (remote files the document does not track)
IsSyncedExpectedOnly(project, files, local) ==
    LET drivePaths == {files[i].relativePath[1] :
                         i \in {j \in 1..Len(files) : files[j].relativePath # Null}}
        expectedFiles == ExpectedFiles(project)
    IN  \A i \in 1..Len(expectedFiles) :
           expectedFiles[i] \in drivePaths /\ expectedFiles[i] \in local
\* isSynced of one project in getAllProjectsSyncStatus
IsSynced(project, files, local) ==
    LET drivePaths == {files[i].relativePath[1] :
                         i \in {j \in 1..Len(files) : files[j].relativePath # Null}}
        projectFolder == getProjectFolderName(Some(project))
        expectedFiles == ExpectedFiles(project)
    IN  /\ \A i \in 1..Len(expectedFiles) :
              expectedFiles[i] \in drivePaths /\ expectedFiles[i] \in local
        /\ ~\E drivePath \in drivePaths :
              /\ StartsWith(drivePath, projectFolder \o <<"/">>)
              /\ drivePath \notin SeqRange(expectedFiles)

\* What fetchDrive throws with no token, and when the response is not ok.
NotLoggedIn == "Not logged in"
DriveApiError == "Drive API Error"
\* What a call returned or threw; requested: a request reached the remote store.
Returned(value, requested) == Some([error |-> None, value |-> value, requested |-> requested])
Threw(error, requested) == Some([error |-> error, value |-> Null, requested |-> requested])
\* listAllDriveFiles through fetchDrive: throws before the request with no
\* token, after it when the store answers with an error.
Listed(ok, value) ==
    IF ~accessToken THEN Threw(NotLoggedIn, FALSE)
    ELSE IF ~ok THEN Threw(DriveApiError, TRUE)
    ELSE Returned(value, TRUE)

generateSyncReport(targetProjectId, ok) ==
    /\ syncReport = Null
    /\ LET projectId == IF targetProjectId # Null THEN targetProjectId
                        ELSE masterData.currentProjectId
           k == IndexOf(masterData.projects, projectId)
       IN  syncReport' =
             IF k = 0 THEN Returned(<<>>, FALSE)
             ELSE Listed(ok, ReportOf(masterData.projects[k], driveFiles, localFiles))
    /\ UNCHANGED <<driveFiles, syncStatuses, batchVars, pathVars, masterVars, mergeVars>>

getAllProjectsSyncStatus(ok) ==
    /\ syncStatuses = Null
    /\ syncStatuses' =
         Listed(ok, [id \in {masterData.projects[i].id : i \in 1..Len(masterData.projects)} |->
                        LET last == CHOOSE i \in 1..Len(masterData.projects) :
                                       /\ masterData.projects[i].id = id
                                       /\ \A j \in (i + 1)..Len(masterData.projects) :
                                             masterData.projects[j].id # id
                        IN  IsSynced(masterData.projects[last], driveFiles, localFiles)])
    /\ UNCHANGED <<driveFiles, syncReport, batchVars, pathVars, masterVars, mergeVars>>

\* Projects with the media their entities name. FolderA is the folder of the
\* project named "a", under which its media were saved (saveSpot, saveSite).
FolderA == getProjectFolderName(Some([id |-> OldId(1), name |-> <<"a">>]))
FolderB == getProjectFolderName(Some([id |-> OldId(2), name |-> <<"b">>]))
ImagePath == FolderA \o <<"/", "i">>
KmlPath == FolderA \o <<"/", "k">>
StrayPath == FolderA \o <<"/", "x">>
ExternalPath == FolderB \o <<"/", "e">>
MediaProject(n, name, spots, sites, external_files) ==
    [id |-> OldId(n), name |-> name, spots |-> spots,
     routes |-> IF spots = <<>> THEN <<>> ELSE <<OldRoute>>,
     sites |-> sites, external_files |-> external_files]
ImageSpot == [spotId |-> <<"s", "1">>, timestamp |-> 0, name |-> <<"n">>,
              image_local_filename |-> Some(ImagePath), audio_local_filename |-> Null]
KmlSite == [id |-> <<"k", "1">>, timestamp |-> 0, name |-> <<"n">>,
            kml_filename |-> Some(KmlPath)]
ExternalFile == [id |-> <<"e", "1">>, timestamp |-> 0, name |-> <<"n">>,
                 local_path |-> Some(ExternalPath)]
\* The documents: a project with no spot, site or external file; with a
\* spot; with a spot and a site; the project with a spot after it was
\* renamed from "a" to "c"; two projects.
MediaDocs ==
    {[hasProjects |-> TRUE, currentProjectId |-> OldId(1), projects |-> projects,
      spots |-> <<>>, routes |-> <<>>] :
        projects \in {<<MediaProject(1, <<"a">>, <<>>, <<>>, <<>>)>>,
                      <<MediaProject(1, <<"a">>, <<ImageSpot>>, <<>>, <<>>)>>,
                      <<MediaProject(1, <<"a">>, <<ImageSpot>>, <<KmlSite>>, <<>>)>>,
                      <<MediaProject(1, <<"c">>, <<ImageSpot>>, <<>>, <<>>)>>,
                      <<MediaProject(1, <<"a">>, <<ImageSpot>>, <<>>, <<>>),
                        MediaProject(2, <<"b">>, <<>>, <<>>, <<ExternalFile>>)>>}}
LocalStores == SUBSET {ImagePath, KmlPath, ExternalPath}
\* Remote objects: two tagged with the image path (uploadFile makes a new
\* object each time), one with each other path, one with no tag.
DriveObjects ==
    <<[id |-> "d1", relativePath |-> Some(ImagePath)],
      [id |-> "d2", relativePath |-> Some(ImagePath)],
      [id |-> "d3", relativePath |-> Some(KmlPath)],
      [id |-> "d4", relativePath |-> Some(StrayPath)],
      [id |-> "d5", relativePath |-> Some(ExternalPath)],
      [id |-> "d6", relativePath |-> Null]>>
RECURSIVE SubSeqs(_)
SubSeqs(s) ==
    IF s = <<>> THEN {<<>>}
    ELSE LET rest == SubSeqs(Tail(s))
         IN  rest \cup {<<Head(s)>> \o r : r \in rest}
DriveListings == SubSeqs(DriveObjects)
ReportTargets == {Null, OldId(1), OldId(2), UnknownId}

InitReport ==
    /\ masterData \in MediaDocs /\ localFiles \in LocalStores
    /\ driveFiles \in DriveListings /\ accessToken \in BOOLEAN
    /\ syncReport = Null /\ syncStatuses = Null
    /\ remoteMasterCache = Null /\ persisted = Null
    /\ remote = Null /\ storage = StorageNone
    /\ tasks = EmptyBag /\ ops = 0 /\ uuids = 0 /\ outcome = NoOutcome
    /\ emitted = <<>>
    /\ localDoc = EmptyMaster /\ remoteDoc = EmptyMaster /\ mergedDoc = Null
    /\ swappedDoc = Null /\ reloadedDoc = Null /\ signatures = Null
    /\ isSyncing = FALSE /\ batch = <<>> /\ log = <<>> /\ remoteFiles = {}
    /\ folderCache = {} /\ promises = <<>> /\ callers = <<>>
    /\ folders = {} /\ microtasks = <<>>

NextReport ==
    \/ \E targetProjectId \in ReportTargets, ok \in BOOLEAN :
          generateSyncReport(targetProjectId, ok)
    \/ \E ok \in BOOLEAN : getAllProjectsSyncStatus(ok)

SpecReport == InitReport /\ [][NextReport]_vars

\* The paths the remote objects of the listing are tagged with.
TaggedPaths == {driveFiles[j].relativePath[1] :
                  j \in {i \in 1..Len(driveFiles) : driveFiles[i].relativePath # Null}}
\* The statuses getAllProjectsSyncStatus returned.
StatusesReturned == syncStatuses # Null /\ syncStatuses[1].error = None

\* C21: getAllProjectsSyncStatus maps every project id to true exactly when
\* every expected file of the project is in the local store and tagged on a
\* remote object, and no remote object is tagged with a path under the
\* project's folder that is not expected; so a project with an expected file
\* that is local but not remote is mapped to false, and an empty remote
\* listing gives a result for every project, not an error.
C21_StatusIffAllPresent ==
    StatusesReturned =>
        /\ DOMAIN syncStatuses[1].value = ProjectIds(masterData)
        /\ \A i \in 1..Len(masterData.projects) :
              LET project == masterData.projects[i]
                  expected == SeqRange(ExpectedFiles(project))
                  folder == getProjectFolderName(Some(project)) \o <<"/">>
              IN  /\ syncStatuses[1].value[project.id] =
                        (/\ expected \subseteq localFiles
                         /\ expected \subseteq TaggedPaths
                         /\ \A path \in TaggedPaths :
                               StartsWith(path, folder) => path \in expected)
                  /\ (\E path \in expected : path \in localFiles /\ path \notin TaggedPaths)
                        => ~syncStatuses[1].value[project.id]
C21_Witness ==
    /\ StatusesReturned
    /\ \E i, j \in 1..Len(masterData.projects) :
          /\ syncStatuses[1].value[masterData.projects[i].id]
          /\ ExpectedFiles(masterData.projects[i]) # <<>>
          /\ ~syncStatuses[1].value[masterData.projects[j].id]
          /\ \E path \in SeqRange(ExpectedFiles(masterData.projects[j])) :
                path \in localFiles /\ path \notin TaggedPaths

\* generateSyncReport returned a report for which it read the remote listing.
ReportReturned == syncReport # Null /\ syncReport[1].error = None /\ syncReport[1].requested
\* No project of the document has a spot, a route, a site or an external file.
NoEntity ==
    \A i \in 1..Len(masterData.projects) :
        /\ masterData.projects[i].spots = <<>> /\ masterData.projects[i].routes = <<>>
        /\ masterData.projects[i].sites = <<>> /\ masterData.projects[i].external_files = <<>>
\* The paths of the listing under the folder of the document's first project.
UnderFolder ==
    {path \in TaggedPaths :
        StartsWith(path, getProjectFolderName(Some(masterData.projects[1])) \o <<"/">>)}
\* The id of the last object of the listing tagged with the path.
LastTagged(path) ==
    driveFiles[CHOOSE i \in 1..Len(driveFiles) :
                  /\ driveFiles[i].relativePath = Some(path)
                  /\ \A j \in (i + 1)..Len(driveFiles) : driveFiles[j].relativePath # Some(path)].id

\* C22 as stated: generateSyncReport on a project with zero entities returns
\* an empty list, whatever the local store and the remote store hold.
C22_EmptyForNoEntities ==
    (NoEntity /\ syncReport # Null) =>
        syncReport[1].error = None /\ syncReport[1].value = <<>>

\* C22, amended: generateSyncReport on a project with zero entities, once it
\* has the remote listing, returns one remote-only record for each path of
\* the listing under the project's folder and nothing else, whatever the
\* local store holds: the empty list exactly when no remote object is tagged
\* with a path under that folder.
C22_RemoteOnlyForNoEntities ==
    (NoEntity /\ ReportReturned) =>
        LET report == syncReport[1].value
        IN  /\ {report[i].name : i \in 1..Len(report)} = UnderFolder
            /\ Len(report) = Cardinality(UnderFolder)
            /\ \A i \in 1..Len(report) :
                  /\ ~report[i].isLocal /\ report[i].isDrive
                  /\ report[i].driveId = LastTagged(report[i].name)
            /\ (report = <<>>) = (UnderFolder = {})
C22_Witness ==
    /\ NoEntity /\ ReportReturned
    /\ syncReport[1].value = <<>>
    /\ TaggedPaths # {} /\ localFiles # {}

\* The report is the one the claim describes for the project.
ReportAsStated(project, report) ==
    LET expected == ExpectedFiles(project)
        folder == getProjectFolderName(Some(project)) \o <<"/">>
        remoteOnly == {path \in TaggedPaths :
                          StartsWith(path, folder) /\ path \notin SeqRange(expected)}
    IN  /\ Len(report) = Len(expected) + Cardinality(remoteOnly)
        /\ \A i \in 1..Len(expected) :
              /\ report[i].name = expected[i]
              /\ report[i].isLocal = (expected[i] \in localFiles)
              /\ report[i].isDrive = (expected[i] \in TaggedPaths)
              /\ report[i].driveId = IF expected[i] \in TaggedPaths
                                     THEN LastTagged(expected[i]) ELSE None
        /\ {report[i].name : i \in (Len(expected) + 1)..Len(report)} = remoteOnly
        /\ \A i \in (Len(expected) + 1)..Len(report) :
              ~report[i].isLocal /\ report[i].isDrive
                  /\ report[i].driveId = LastTagged(report[i].name)

\* C23: the report generateSyncReport returns for a project has, for each
\* expected path, a record whose isLocal tells whether the path is in the
\* local store and whose isDrive tells whether the remote listing has a file
\* tagged with that path (driveId being that file's id), and one remote-only
\* record for every remote path under the project folder that is not expected.
C23_ReportMatchesStores ==
    ReportReturned =>
        \E i \in 1..Len(masterData.projects) :
            ReportAsStated(masterData.projects[i], syncReport[1].value)

\* The step is the load of ensureMasterJson, which found a stored document.
LoadsStored == storage = "loading" /\ storage' = "finishing" /\ persisted # Null
\* The document is in project schema and its current project exists: loading
\* it takes the branch that adopts it.
IsV2(data) == data.hasProjects /\ IndexOf(data.projects, data.currentProjectId) # 0

Mutators == {"saveSpot", "saveRoute", "createProject", "switchProject",
             "renameProject", "deleteProject"}
\* The pushes (pushMasterToDrive) that are under way.
PushesStarted(bag) == CopiesIn(Task("autopush", "autopush", Null), bag)
\* The step is the one in which the mutating operation suspended as t goes on
\* after its _saveMasterData() and returns to its caller.
Returns(t) ==
    /\ t.kind = "save" /\ t.op \in Mutators
    /\ CopiesIn(t, tasks') = CopiesIn(t, tasks) - 1
    /\ emitted' = Events(t.op)
\* The step is a call of a mutating operation that passes its checks.
Mutates(op) == CallOf(op) /\ outcome'.error = None

C26_PushFailureSwallowed ==
    [][PushesStarted(tasks') < PushesStarted(tasks) =>
          /\ outcome' = NoOutcome /\ emitted' = <<>>
          /\ masterData' = masterData /\ persisted' = persisted
          /\ remoteMasterCache' = remoteMasterCache
          /\ ops' = ops /\ storage' = storage
          /\ remote' \in {remote, Some(masterData)}]_vars
\* A route was saved and persisted with a token present, every push has ended,
\* and the remote store still has no document: the pushes failed.
C26_Witness ==
    /\ accessToken /\ remote = Null /\ tasks = EmptyBag
    /\ persisted = Some(masterData) /\ storage = "ready"
    /\ \E i \in 1..Len(masterData.projects) :
          \E j \in 1..Len(masterData.projects[i].routes) :
              masterData.projects[i].routes[j].timestamp > 0

\* C27: with no token, generateSyncReport and getAllProjectsSyncStatus issue
\* no remote request and complete without raising an error (as the push after
\* a mutation and checkForRemoteUpdates do).
C27_OfflineCompletes ==
    ~accessToken =>
        /\ syncReport # Null =>
              ~syncReport[1].requested /\ syncReport[1].error = None
        /\ syncStatuses # Null =>
              ~syncStatuses[1].requested /\ syncStatuses[1].error = None

\* The step is the one in which the mutating operation suspended as t ends,
\* by returning or by throwing the error of its local save.
Ends(t) ==
    t.kind = "save" /\ t.op \in Mutators /\ CopiesIn(t, tasks') = CopiesIn(t, tasks) - 1
ProjectOps == {"createProject", "switchProject", "renameProject", "deleteProject"}

\* C28 as stated: every successful mutation dispatches data-updated, and
\* every successful project operation dispatches project-changed.
C28_DataUpdatedOnEveryMutation ==
    [][\A t \in Suspended :
          Returns(t) => /\ Dispatched("data-updated")
                        /\ t.op \in ProjectOps => Dispatched("project-changed")]_vars

\* C28, amended: a successful save of an entity dispatches data-updated; a
\* successful createProject or renameProject dispatches project-changed only;
\* a successful switchProject or deleteProject dispatches project-changed and
\* then data-updated. An operation that fails, at its checks or at its local
\* save, dispatches nothing, and nothing is dispatched before the document is
\* persisted.
C28_NotifiedOnSuccessOnly ==
    [][/\ \A op \in Mutators : CallOf(op) => emitted' = <<>>
       /\ \A t \in Suspended :
             Ends(t) =>
                 LET notified ==
                         IF t.op \in {"saveSpot", "saveRoute"}
                         THEN <<Event("data-updated")>>
                         ELSE IF t.op \in {"createProject", "renameProject"}
                         THEN <<Event("project-changed")>>
                         ELSE <<Event("project-changed"), Event("data-updated")>>
                 IN  /\ emitted' \in {<<>>, notified}
                     /\ persisted' # persisted => emitted' = notified
                     /\ emitted' # <<>> => persisted' = t.blob]_vars
C28_Witness ==
    /\ emitted = <<Event("project-changed"), Event("data-updated")>>
    /\ persisted = Some(masterData) /\ storage = "ready"
    /\ masterData.currentProjectId = ProjectA.id
    /\ Len(masterData.projects) = 1

\* No two entries of the array have the same id.
UniqueIds(items) ==
    \A i, j \in 1..Len(items) : ItemId(items[i]) = ItemId(items[j]) => i = j

\* C29: in every reachable state no two projects of the master document
\* share an id, and within each project no two spots and no two routes share
\* an id, after any sequence of save*, createProject, pull and merge.
C29_IdsUnique ==
    /\ \A i, j \in 1..Len(masterData.projects) :
          masterData.projects[i].id = masterData.projects[j].id => i = j
    /\ \A i \in 1..Len(masterData.projects) :
          /\ UniqueIds(masterData.projects[i].spots)
          /\ UniqueIds(masterData.projects[i].routes)

\* The call left the document alone, started nothing and notified nobody.
Untouched ==
    /\ masterData' = masterData /\ persisted' = persisted /\ remote' = remote
    /\ tasks' = tasks /\ emitted' = <<>>

\* C30: switchProject, renameProject and deleteProject called with an id that
\* is not in projects fail with a not-found error, and renameProject called
\* with an empty or blank name fails with a validation error; each failing
\* call leaves the document in memory and the persisted document unchanged,
\* pushes nothing and notifies nobody.
C30_UnknownIdOrBlankNameFails ==
    [][/\ switchProject(UnknownId) => outcome'.error = NotFoundError /\ Untouched
       /\ \A newName \in RenameNames :
             renameProject(UnknownId, newName) =>
                 outcome'.error = NotFoundError /\ Untouched
       /\ \A projectId \in ProjectIdArgs, newName \in RenameNames :
             (renameProject(projectId, newName) /\ projectId # UnknownId
                  /\ Trim(newName) = <<>>) =>
                 outcome'.error = EmptyNameError /\ Untouched
       /\ deleteProject(UnknownId) => outcome'.error = NotFoundError /\ Untouched]_vars

\* C31: every syncBatch invocation that acquired the guard is followed by a
\* state in which the guard is free, whatever its items are (transfers that
\* succeed or fail, null entries, the empty list), provided every step that
\* can be taken is taken.
C31_GuardEventuallyFree ==
    \A c \in Calls : (batch[c].pc = "loop") ~> ~isSyncing

\* C32: whenever the document has been loaded and no operation is suspended,
\* the document in the local store's master slot is the document in memory.
C32_PersistedEqualsMemory ==
    (Loaded /\ tasks = EmptyBag) => persisted = Some(masterData)

\* The project saveRoute appended to in the document it handed to the store,
\* and the route it appended.
SavedInto(doc) ==
    doc.projects[IF IndexOf(doc.projects, doc.currentProjectId) # 0
                 THEN IndexOf(doc.projects, doc.currentProjectId) ELSE 1]
SavedRoute(doc) == SavedInto(doc).routes[Len(SavedInto(doc).routes)]
\* The document has the route in the project, or has not got the project.
Holds(doc, projectId, route) ==
    \A i \in 1..Len(doc.projects) :
        doc.projects[i].id = projectId => route \in SeqRange(doc.projects[i].routes)

\* C33: when a save operation returns successfully and nothing but
\* fire-and-forget pushes is still under way (they touch neither document),
\* the entity it saved is in the document in memory and in the persisted
\* document, unless its project was deleted; also when a pull or a merge
\* replaced the document while the save was suspended.
C33_SavedEntityKept ==
    [][\A t \in Suspended :
          (/\ Returns(t) /\ t.op = "saveRoute"
           /\ \A u \in BagToSet(tasks') : u.kind = "autopush") =>
              /\ Holds(masterData', SavedInto(t.blob[1]).id, SavedRoute(t.blob[1]))
              /\ persisted' # Null
              /\ Holds(persisted'[1], SavedInto(t.blob[1]).id, SavedRoute(t.blob[1]))]_vars

\* A check ends without error having found no remote document, or a remote
\* document with the signature of the local one, while no resolution is
\* under way.
CheckFoundNothingNew ==
    /\ outcome' = [op |-> "check", error |-> None]
    /\ \E t \in Suspended : t.kind = "check" /\ tasks' # tasks
    /\ \A u \in Suspended : u.op \notin Resolutions
    /\ \/ remote = Null
       \/ generateDataSignature(masterData) = generateDataSignature(remote[1])

\* C37: a pending conflict is never applied once stale: after a check that
\* finds the two signatures equal, or no remote document, no conflict is
\* pending, so a following resolveMasterConflict changes nothing.
C37_StaleConflictDropped ==
    [][CheckFoundNothingNew => remoteMasterCache' = Null]_vars

(***************************************************************************)
(* The remote store, object by object (drive_api.js), and the two          *)
(* operations that write to it request by request: pushMasterToDrive       *)
(* (storage.js) and syncUp (js/media_sync.js).  driveFiles is the store;   *)
(* a suspended request is a task whose blob holds what the operation has   *)
(* learnt so far.                                                          *)
(***************************************************************************)
\* CONFIG.DRIVE_ROOT_FOLDER: a fixed name
ROOT_FOLDER_NAME == <<"r", "o", "o", "t">>
MasterDataJson == <<"m", "a", "s", "t", "e", "r", "_", "d", "a", "t", "a", ".", "j", "s", "o", "n">>
LocalFileNotFound == "Local file not found"
\* the bytes of a media file: the model does not look into them
FileBytes == EmptyMaster

DriveFolder(id, name, parent) ==
    [id |-> id, name |-> name, folder |-> TRUE, parent |-> parent,
     relativePath |-> Null, content |-> Null]
DriveFile(id, name, parent, relativePath, content) ==
    [id |-> id, name |-> name, folder |-> FALSE, parent |-> parent,
     relativePath |-> relativePath, content |-> content]
\* the id the store gives to the next object created
NewDriveId == Len(driveFiles) + 1

\* relPath.split('/')
RECURSIVE SplitPath(_)
SplitPath(s) ==
    IF "/" \notin SeqRange(s) THEN <<s>>
    ELSE LET i == CHOOSE k \in 1..Len(s) : s[k] = "/" /\ \A j \in 1..(k - 1) : s[j] # "/"
         IN  <<SubSeq(s, 1, i - 1)>> \o SplitPath(SubSeq(s, i + 1, Len(s)))
\* parts.pop() and what it leaves
FileNameOf(relPath) == SplitPath(relPath)[Len(SplitPath(relPath))]
DirPartsOf(relPath) == SubSeq(SplitPath(relPath), 1, Len(SplitPath(relPath)) - 1)

\* q = name = ROOT_FOLDER_NAME and mimeType = folder: the objects listed
RootFolders(files) ==
    {i \in 1..Len(files) : files[i].folder /\ files[i].name = ROOT_FOLDER_NAME}
\* q = name = filename and parentId in parents: the objects listed
FilesByName(files, filename, parentId) ==
    {i \in 1..Len(files) : files[i].name = filename /\ files[i].parent = Some(parentId)}
\* the objects tagged with appProperties.relativePath = relPath
TaggedWith(files, relPath) ==
    {i \in 1..Len(files) : files[i].relativePath = Some(relPath)}

\* ensureDrivePath with every request answered, the store changing only by
\* its own creations: each folder of pathParts is found or created under
\* the previous one.
RECURSIVE ensureDrivePath(_, _, _)
ensureDrivePath(files, pathParts, currentParentId) ==
    IF pathParts = <<>> THEN [files |-> files, id |-> currentParentId]
    ELSE LET found == {i \in FilesByName(files, Head(pathParts), currentParentId) :
                          files[i].folder}
         IN  IF found # {}
             THEN ensureDrivePath(files, Tail(pathParts),
                                  files[CHOOSE i \in found : \A j \in found : i <= j].id)
             ELSE ensureDrivePath(
                      Append(files, DriveFolder(Len(files) + 1, Head(pathParts),
                                                Some(currentParentId))),
                      Tail(pathParts), Len(files) + 1)

\* What a suspended operation holds: the root folder id, the parent and the
\* file id it was answered, the body it is sending, the path it is syncing.
NoRequest == [rootFolderId |-> 0, parentId |-> 0, fileId |-> 0,
              body |-> Null, relPath |-> <<>>]
RequestOf(t) == IF t.blob = Null THEN NoRequest ELSE t.blob[1]

\* A step of a remote operation: it touches the remote store and the
\* suspended operations only.
DriveStep(result) ==
    /\ outcome' = result
    /\ emitted' = <<>>
    /\ UNCHANGED <<masterData, remoteMasterCache, persisted, remote, accessToken,
                   storage, ops, uuids>>
    /\ UNCHANGED <<batchVars, pathVars, mergeVars, syncReport, syncStatuses>>
\* A request failed: pushMasterToDrive catches the error and logs it, syncUp
\* lets it out.
RequestFails(t) ==
    /\ tasks' = Remove(t)
    /\ UNCHANGED driveFiles
    /\ DriveStep(IF t.op = "syncUp" THEN [op |-> "syncUp", error |-> DriveApiError]
                 ELSE NoOutcome)
\* The operation ends: syncUp returns to its caller, the push is over.
Completes(t) ==
    DriveStep(IF t.op = "syncUp" THEN [op |-> "syncUp", error |-> None] ELSE NoOutcome)
\* findOrCreateRootFolder has returned rootFolderId: pushMasterToDrive looks
\* the master file up, syncUp reads the local file.
AfterRoot(t, rootFolderId) ==
    tasks' = Replace(t, Task(IF t.op = "syncUp" THEN "getFileBlob" ELSE "findFileByName",
                             t.op, Some([RequestOf(t) EXCEPT !.rootFolderId = rootFolderId])))

\* syncUp(relPath) is called: findOrCreateRootFolder sends its search.
syncUp(relPath) ==
    /\ storage = "ready" /\ accessToken
    /\ Called("syncUp", None)
    /\ tasks' = Spawn(Task("findRoot", "syncUp", Some([NoRequest EXCEPT !.relPath = relPath])))
    /\ emitted' = <<>>
    /\ UNCHANGED <<masterData, remoteMasterCache, persisted, remote, accessToken,
                   storage, uuids>>

\* findOrCreateRootFolder: the search is answered; data.files[0] is
\* whichever of the folders of that name the store lists first.
RootSearched(t, ok) ==
    /\ t \in Suspended /\ t.kind \in {"autopush", "findRoot"}
    /\ IF ~ok THEN RequestFails(t)
       ELSE /\ IF RootFolders(driveFiles) # {}
               THEN \E i \in RootFolders(driveFiles) : AfterRoot(t, driveFiles[i].id)
               ELSE tasks' = Replace(t, Task("createRoot", t.op, Some(RequestOf(t))))
            /\ UNCHANGED driveFiles
            /\ DriveStep(NoOutcome)

\* findOrCreateRootFolder: the creation is answered.
RootCreated(t, ok) ==
    /\ t \in Suspended /\ t.kind = "createRoot"
    /\ IF ~ok THEN RequestFails(t)
       ELSE /\ driveFiles' = Append(driveFiles, DriveFolder(NewDriveId, ROOT_FOLDER_NAME, Null))
            /\ AfterRoot(t, NewDriveId)
            /\ DriveStep(NoOutcome)

\* syncUp: FS.getFileBlob(relPath) has answered; the master file is the
\* stored document, any other file is there or not.
BlobRead(t) ==
    /\ t \in Suspended /\ t.kind = "getFileBlob"
    /\ LET request == RequestOf(t)
           isMaster == request.relPath = MasterDataJson
           fileObj == IF isMaster THEN persisted
                      ELSE IF request.relPath \in localFiles THEN Some(FileBytes) ELSE Null
       IN  IF fileObj = Null
           THEN /\ tasks' = Remove(t)
                /\ DriveStep([op |-> "syncUp", error |-> LocalFileNotFound])
           ELSE /\ tasks' = Replace(t, Task(IF isMaster THEN "findFileByName" ELSE "ensureDrivePath",
                                            t.op, Some([request EXCEPT !.body = fileObj])))
                /\ DriveStep(NoOutcome)
    /\ UNCHANGED driveFiles

\* findFileByName('master_data.json', rootFolderId) is answered: the push
\* serialises the document as it is now, syncUp sends what it read; the
\* file found is updated, or one is created in the root folder.
MasterSearched(t, ok) ==
    /\ t \in Suspended /\ t.kind = "findFileByName"
    /\ IF ~ok THEN RequestFails(t)
       ELSE LET request == [RequestOf(t) EXCEPT
                               !.body = IF t.op = "syncUp" THEN @ ELSE Some(masterData),
                               !.parentId = RequestOf(t).rootFolderId]
                existing == FilesByName(driveFiles, MasterDataJson, request.rootFolderId)
            IN  /\ IF existing # {}
                   THEN \E i \in existing :
                            tasks' = Replace(t, Task("updateDriveFile", t.op,
                                         Some([request EXCEPT !.fileId = driveFiles[i].id])))
                   ELSE tasks' = Replace(t, Task("uploadFile", t.op, Some(request)))
                /\ UNCHANGED driveFiles
                /\ DriveStep(NoOutcome)

\* syncUp of a media file: ensureDrivePath has returned the parent folder.
PathEnsured(t, ok) ==
    /\ t \in Suspended /\ t.kind = "ensureDrivePath"
    /\ IF ~ok THEN RequestFails(t)
       ELSE LET request == RequestOf(t)
                ensured == ensureDrivePath(driveFiles, DirPartsOf(request.relPath),
                                           request.rootFolderId)
            IN  /\ driveFiles' = ensured.files
                /\ tasks' = Replace(t, Task("uploadFile", t.op,
                                            Some([request EXCEPT !.parentId = ensured.id])))
                /\ DriveStep(NoOutcome)

\* uploadFile is answered: the store has a new object; syncUp tags it with
\* relPath, pushMasterToDrive does not.
FileUploaded(t, ok) ==
    /\ t \in Suspended /\ t.kind = "uploadFile"
    /\ IF ~ok THEN RequestFails(t)
       ELSE LET request == RequestOf(t)
            IN  /\ driveFiles' = Append(driveFiles,
                       DriveFile(NewDriveId, FileNameOf(IF t.op = "syncUp" THEN request.relPath
                                                        ELSE MasterDataJson),
                                 Some(request.parentId),
                                 IF t.op = "syncUp" THEN Some(request.relPath) ELSE Null,
                                 request.body))
                /\ tasks' = Remove(t)
                /\ Completes(t)

\* updateDriveFile is answered: the content of the object is replaced.
FileUpdated(t, ok) ==
    /\ t \in Suspended /\ t.kind = "updateDriveFile"
    /\ IF ~ok THEN RequestFails(t)
       ELSE LET request == RequestOf(t)
            IN  /\ driveFiles' = [i \in 1..Len(driveFiles) |->
                                     IF driveFiles[i].id = request.fileId
                                     THEN [driveFiles[i] EXCEPT !.content = request.body]
                                     ELSE driveFiles[i]]
                /\ tasks' = Remove(t)
                /\ Completes(t)

\* The paths syncUp is called with: the master file, a media file of the
\* local store, a file the local store does not have.
SyncPaths == {MasterDataJson, ImagePath, KmlPath}
\* The remote store at the start: empty, with the root folder, or with the
\* root folder and the master file an earlier push created.
DriveStores(doc) ==
    { <<>>,
      <<DriveFolder(1, ROOT_FOLDER_NAME, Null)>>,
      <<DriveFolder(1, ROOT_FOLDER_NAME, Null),
        DriveFile(2, MasterDataJson, Some(1), Null, Some(doc))>> }

InitDrive ==
    /\ masterData = OneProjectDoc
    /\ persisted = Some(masterData)
    /\ storage = "ready" /\ accessToken = TRUE
    /\ remote = Null /\ remoteMasterCache = Null
    /\ driveFiles \in DriveStores(masterData)
    /\ localFiles = {ImagePath}
    /\ tasks = EmptyBag
    /\ ops = 0 /\ uuids = 0 /\ outcome = NoOutcome /\ emitted = <<>>
    /\ isSyncing = FALSE /\ batch = <<>> /\ log = <<>> /\ remoteFiles = {}
    /\ folderCache = {} /\ promises = <<>> /\ callers = <<>>
    /\ folders = {} /\ microtasks = <<>>
    /\ localDoc = EmptyMaster /\ remoteDoc = EmptyMaster /\ mergedDoc = Null
    /\ swappedDoc = Null /\ reloadedDoc = Null /\ signatures = Null
    /\ syncReport = Null /\ syncStatuses = Null

NextDrive ==
    \/ saveRoute
    \/ \E t \in Suspended, ok \in BOOLEAN : SaveCompletes(t, ok)
    \/ \E relPath \in SyncPaths : syncUp(relPath)
    \/ \E t \in Suspended, ok \in BOOLEAN : RootSearched(t, ok)
    \/ \E t \in Suspended, ok \in BOOLEAN : RootCreated(t, ok)
    \/ \E t \in Suspended : BlobRead(t)
    \/ \E t \in Suspended, ok \in BOOLEAN : MasterSearched(t, ok)
    \/ \E t \in Suspended, ok \in BOOLEAN : PathEnsured(t, ok)
    \/ \E t \in Suspended, ok \in BOOLEAN : FileUploaded(t, ok)
    \/ \E t \in Suspended, ok \in BOOLEAN : FileUpdated(t, ok)

SpecDrive == InitDrive /\ [][NextDrive]_vars

\* How many routes a document holds: in a session whose mutations are
\* saveRoute calls, the later document is the one with more routes.
RECURSIVE SumRoutes(_)
SumRoutes(projects) ==
    IF projects = <<>> THEN 0 ELSE Len(Head(projects).routes) + SumRoutes(Tail(projects))
\* A push of pushMasterToDrive ends with its write answered: t is that write.
PushWrites(t) ==
    /\ t \in Suspended /\ t.op = "autopush" /\ t.kind \in {"updateDriveFile", "uploadFile"}
    /\ tasks' = Remove(t)
    /\ driveFiles' # driveFiles

\* C34: an earlier push never overwrites the remote copy written by a later
\* mutation's push: the write that ends a push leaves every remote master
\* file with a document at least as recent as the one it held (so that the
\* last write to land is that of the latest document).
C34_RemoteIsLatest ==
    [][\A t \in Suspended : PushWrites(t) =>
          \A i \in 1..Len(driveFiles) :
              driveFiles[i].content # Null =>
                  SumRoutes(driveFiles'[i].content[1].projects) >=
                      SumRoutes(driveFiles[i].content[1].projects)]_vars

\* C35: whatever the interleaving of the operations that look an object up
\* and create it when absent, the remote store holds at most one root
\* folder and at most one master_data.json.
C35_OneRootOneMaster ==
    /\ Cardinality(RootFolders(driveFiles)) <= 1
    /\ Cardinality({i \in 1..Len(driveFiles) : driveFiles[i].name = MasterDataJson}) <= 1

\* syncUp returns to its caller: t is its last request, answered.
SyncUpReturns(t) ==
    /\ t \in Suspended /\ t.op = "syncUp" /\ t.kind \in {"updateDriveFile", "uploadFile"}
    /\ tasks' = Remove(t)
    /\ outcome' = [op |-> "syncUp", error |-> None]

\* The remote objects that stand for a path: those tagged with it and, for
\* the master file, which pushMasterToDrive creates untagged, those of its
\* name.
RemoteCopies(files, relPath) ==
    TaggedWith(files, relPath) \cup
        IF relPath = MasterDataJson
        THEN {i \in 1..Len(files) : files[i].name = MasterDataJson}
        ELSE {}

\* C36: pushing a file is idempotent: whenever syncUp returns, for the
\* first time or again, the remote store holds exactly one file for the
\* path it was called with.
C36_SyncUpIdempotent ==
    [][\A t \in Suspended : SyncUpReturns(t) =>
          Cardinality(RemoteCopies(driveFiles', t.blob[1].relPath)) = 1]_vars

\* Every record of a report has isLocal and isDrive both true.
AllSynced(report) == \A k \in 1..Len(report) : report[k].isLocal /\ report[k].isDrive

\* C38: getAllProjectsSyncStatus and generateSyncReport agree: a project is
\* mapped to true exactly when every record of the report generateSyncReport
\* returns for that project has isLocal and isDrive both true, also for a
\* project that was renamed.
C38_StatusRefinesReport ==
    (ReportReturned /\ StatusesReturned) =>
        \A i \in 1..Len(masterData.projects) :
            syncReport[1].value = ReportOf(masterData.projects[i], driveFiles, localFiles) =>
                syncStatuses[1].value[masterData.projects[i].id] =
                    AllSynced(syncReport[1].value)

(***************************************************************************)
(* Saving entities with their files (storage.js saveSpot, saveSite,        *)
(* saveExternalFile; storage_adapter.js saveFile): the path each file is   *)
(* written to, the entity that records it, and the project operations      *)
(* around them.                                                            *)
(***************************************************************************)
SpotsDir == <<"s", "p", "o", "t", "s">>
ImagesDir == <<"i", "m", "a", "g", "e", "s">>
AudioDir == <<"a", "u", "d", "i", "o">>
SitesDir == <<"s", "i", "t", "e", "s">>
ExternalDataDir == <<"e", "x", "t", "e", "r", "n", "a", "l", "_", "d", "a", "t", "a">>
CoverSuffix == <<"_", "c", "o", "v", "e", "r", ".", "j", "p", "g">>
NoteSuffix == <<"_", "n", "o", "t", "e", ".", "w", "e", "b", "m">>
KmlSuffix == <<".", "k", "m", "l">>
SpotPrefix == <<"S", "p", "o", "t", "_">>
SpotIdLen == 8
SaveFileError == "saveFile failed"

\* parts.join('/')
RECURSIVE JoinPath(_)
JoinPath(parts) ==
    IF parts = <<>> THEN <<>>
    ELSE IF Len(parts) = 1 THEN parts[1]
    ELSE parts[1] \o <<"/">> \o JoinPath(Tail(parts))
\* FS.saveFile(blob, filename, pathParts): the path written and returned
saveFile(filename, pathParts) == JoinPath(pathParts \o <<filename>>)
\* (name || `Spot_${spotId.substring(0, 8)}`) sanitised
SafeSpotName(name, spotId) ==
    Sanitize(IF name # <<>> THEN name
             ELSE SpotPrefix \o SubSeq(spotId, 1, IF Len(spotId) < SpotIdLen THEN Len(spotId)
                                                  ELSE SpotIdLen))
\* project[f].push(entity), after if (!project[f]) project[f] = []
Pushed(project, f, entity) ==
    [g \in DOMAIN project \cup {f} |->
        IF g = f THEN Append(Field(project, f), entity) ELSE project[g]]
\* (project.spots || []).find(s => s.spotId === primarySpotId)?.name
SpotNameOf(project, primarySpotId) ==
    LET found == {j \in 1..Len(Field(project, "spots")) :
                     project.spots[j].spotId = primarySpotId}
    IN  IF found = {} THEN <<>>
        ELSE project.spots[CHOOSE j \in found : \A k \in found : j <= k].name

\* An operation that writes files first is suspended at FS.saveFile with
\* the project it read, the entity it will push and the paths it writes.
FileWrite(op, projectId, f, entity, paths) ==
    Task("saveFile", op, Some([projectId |-> projectId, field |-> f, entity |-> entity,
                               paths |-> paths]))
\* A call that throws before it changes anything.
NothingDone ==
    /\ emitted' = <<>>
    /\ UNCHANGED <<masterData, remoteMasterCache, persisted, remote, accessToken,
                   storage, tasks, uuids>>

\* saveSpot(spotData, imageBlob, audioBlob): spotData.spotId is absent, or
\* that of a spot being edited.  With no blob the spot is pushed and the
\* document saved at once; otherwise the files are written first (the one
\* or two writes are one step).
saveSpotMedia(name, spotId, imageBlob, audioBlob) ==
    IF getActiveProject = 0
    THEN ProjectCall("saveSpot", NoActiveProjectError) /\ NothingDone
    ELSE LET project == masterData.projects[getActiveProject]
             projectFolder == getProjectFolderName(Some(project))
             id == IF spotId # Null THEN spotId[1] ELSE UUID(uuids)
             safeSpotName == SafeSpotName(name, id)
             spotPathParts == <<projectFolder, SpotsDir, safeSpotName>>
             imgPath == IF imageBlob
                        THEN Some(saveFile(safeSpotName \o CoverSuffix,
                                           spotPathParts \o <<ImagesDir>>))
                        ELSE Null
             audioPath == IF audioBlob
                          THEN Some(saveFile(safeSpotName \o NoteSuffix,
                                             spotPathParts \o <<AudioDir>>))
                          ELSE Null
             newSpot == [spotId |-> id, timestamp |-> ops + 1, name |-> name,
                         image_local_filename |-> imgPath,
                         audio_local_filename |-> audioPath]
         IN  /\ ProjectCall("saveSpot", None)
             /\ uuids' = IF spotId # Null THEN uuids ELSE uuids + 1
             /\ IF imageBlob \/ audioBlob
                THEN /\ tasks' = Spawn(FileWrite("saveSpot", project.id, "spots", newSpot,
                                                 SeqRange(imgPath \o audioPath)))
                     /\ UNCHANGED masterData
                ELSE /\ masterData' = [masterData EXCEPT !.projects[getActiveProject] =
                                          Pushed(@, "spots", newSpot)]
                     /\ tasks' = Spawn(Task("save", "saveSpot", Some(masterData')))
             /\ emitted' = <<>>
             /\ UNCHANGED <<remoteMasterCache, persisted, remote, accessToken, storage>>

\* saveSite(siteName, kmlFile): the file is written under the site's name.
saveSite(siteName) ==
    IF getActiveProject = 0
    THEN ProjectCall("saveSite", NoActiveProjectError) /\ NothingDone
    ELSE LET project == masterData.projects[getActiveProject]
             projectFolder == getProjectFolderName(Some(project))
             kmlPath == saveFile(siteName \o KmlSuffix, <<projectFolder, SitesDir>>)
             newSite == [id |-> Null, timestamp |-> ops + 1, name |-> siteName,
                         kml_filename |-> Some(kmlPath)]
         IN  /\ ProjectCall("saveSite", None)
             /\ tasks' = Spawn(FileWrite("saveSite", project.id, "sites", newSite, {kmlPath}))
             /\ emitted' = <<>>
             /\ UNCHANGED <<masterData, remoteMasterCache, persisted, remote, accessToken,
                            storage, uuids>>

\* saveExternalFile(fileObj, spotIds): the file is written under its own
\* name in the folder of the first linked spot.
saveExternalFile(fileName, primarySpotId) ==
    IF getActiveProject = 0
    THEN ProjectCall("saveExternalFile", NoActiveProjectError) /\ NothingDone
    ELSE LET project == masterData.projects[getActiveProject]
             projectFolder == getProjectFolderName(Some(project))
             safeSpotName == SafeSpotName(SpotNameOf(project, primarySpotId), primarySpotId)
             savedPath == saveFile(fileName, <<projectFolder, SpotsDir, safeSpotName,
                                              ExternalDataDir>>)
             newFileEntry == [id |-> Null, timestamp |-> ops + 1, name |-> fileName,
                              linked_spots |-> <<primarySpotId>>,
                              local_path |-> Some(savedPath)]
         IN  /\ ProjectCall("saveExternalFile", None)
             /\ tasks' = Spawn(FileWrite("saveExternalFile", project.id, "external_files",
                                         newFileEntry, {savedPath}))
             /\ emitted' = <<>>
             /\ UNCHANGED <<masterData, remoteMasterCache, persisted, remote, accessToken,
                            storage, uuids>>

\* FS.saveFile has settled.  A file already at the path is replaced.  The
\* entity (a site or a file entry gets its id now) is pushed into the
\* project object the operation read, and the document is saved.
FileSaved(t, ok) ==
    /\ t \in Suspended /\ t.kind = "saveFile"
    /\ LET request == t.blob[1]
           k == IndexOf(masterData.projects, request.projectId)
           entity == IF t.op = "saveSpot" THEN request.entity
                     ELSE [request.entity EXCEPT !.id = UUID(uuids)]
       IN  IF ~ok
           THEN /\ tasks' = Remove(t)
                /\ outcome' = [op |-> t.op, error |-> SaveFileError]
                /\ UNCHANGED <<masterData, localFiles, uuids>>
           ELSE /\ localFiles' = localFiles \cup request.paths
                /\ masterData' = IF k = 0 THEN masterData
                                 ELSE [masterData EXCEPT !.projects[k] =
                                          Pushed(@, request.field, entity)]
                /\ uuids' = IF t.op = "saveSpot" THEN uuids ELSE uuids + 1
                /\ tasks' = Replace(t, Task("save", t.op, Some(masterData')))
                /\ outcome' = NoOutcome
    /\ emitted' = <<>>
    /\ UNCHANGED <<remoteMasterCache, persisted, remote, accessToken, storage, ops>>
    /\ UNCHANGED <<isSyncing, batch, log, remoteFiles, pathVars, mergeVars, reportVars>>

\* What the callers pass: names that differ and sanitise to the same
\* folder; a new spot with an image, or with an image and a note, or a spot
\* being edited with no new file; a file name, a site name, a project name.
SpotNames == {<<"n">>, <<"n", "!">>}
SpotArgs ==
    {[spotId |-> Null, imageBlob |-> TRUE, audioBlob |-> FALSE],
     [spotId |-> Null, imageBlob |-> TRUE, audioBlob |-> TRUE],
     [spotId |-> Some(OldSpot.spotId), imageBlob |-> FALSE, audioBlob |-> FALSE]}
NewNames == {<<"c">>}
SiteNames == {<<"k">>}
ExternalNames == {<<"e">>}
\* The document at the start: a project with a spot whose image is stored.
MediaStart ==
    [hasProjects |-> TRUE, currentProjectId |-> OldId(1),
     projects |-> <<MediaProject(1, <<"a">>, <<ImageSpot>>, <<>>, <<>>)>>,
     spots |-> <<>>, routes |-> <<>>]

InitMedia ==
    /\ masterData = MediaStart
    /\ persisted = Some(masterData)
    /\ storage = "ready" /\ accessToken = FALSE
    /\ remote = Null /\ remoteMasterCache = Null
    /\ localFiles = SeqRange(ExpectedFiles(masterData.projects[1]))
    /\ tasks = EmptyBag
    /\ ops = 0 /\ uuids = 0 /\ outcome = NoOutcome /\ emitted = <<>>
    /\ isSyncing = FALSE /\ batch = <<>> /\ log = <<>> /\ remoteFiles = {}
    /\ folderCache = {} /\ promises = <<>> /\ callers = <<>>
    /\ folders = {} /\ microtasks = <<>>
    /\ localDoc = EmptyMaster /\ remoteDoc = EmptyMaster /\ mergedDoc = Null
    /\ swappedDoc = Null /\ reloadedDoc = Null /\ signatures = Null
    /\ driveFiles = <<>> /\ syncReport = Null /\ syncStatuses = Null

NextMedia ==
    \/ \E name \in SpotNames, spotData \in SpotArgs :
          saveSpotMedia(name, spotData.spotId, spotData.imageBlob, spotData.audioBlob)
    \/ \E siteName \in SiteNames : saveSite(siteName)
    \/ \E fileName \in ExternalNames, primarySpotId \in {OldSpot.spotId, UnknownId} :
          saveExternalFile(fileName, primarySpotId)
    \/ \E t \in Suspended, ok \in BOOLEAN : FileSaved(t, ok)
    \/ \E t \in Suspended, ok \in BOOLEAN : SaveCompletes(t, ok)
    \/ \E name \in NewNames : createProject(name)
    \/ \E projectId \in ProjectIds(masterData) : switchProject(projectId)
    \/ \E projectId \in ProjectIds(masterData), newName \in NewNames :
          renameProject(projectId, newName)

SpecMedia == InitMedia /\ [][NextMedia]_vars

\* The fields of an entity that hold the path of a stored file, and the
\* entity arrays that have such fields.
PathFields == {"image_local_filename", "audio_local_filename", "kml_filename", "local_path"}
FileArrays == {"spots", "sites", "external_files"}
\* the paths an entity references
PathsOf(entity) ==
    {entity[f][1] : f \in {g \in PathFields \cap DOMAIN entity : entity[g] # Null}}
\* <<entity id, path>> for every path an entity of the document references
References(doc) ==
    UNION {UNION {UNION {{<<ItemId(Field(doc.projects[i], f)[j]), path>> :
                            path \in PathsOf(Field(doc.projects[i], f)[j])} :
                         j \in 1..Len(Field(doc.projects[i], f))} :
                  f \in FileArrays} :
           i \in 1..Len(doc.projects)}

\* C39: saving an entity never overwrites a stored file of another entity:
\* after any sequence of saveSpot, saveSite and saveExternalFile calls, two
\* distinct entities of the document never reference the same relative path.
C39_PathsNotShared ==
    \A r1, r2 \in References(masterData) : r1[2] = r2[2] => r1[1] = r2[1]

\* Every entity of the document before is an entity of the document after,
\* in the same project if that project is there, with the same stored paths.
KeepsPaths(before, after) ==
    \A i \in 1..Len(before.projects), k \in 1..Len(after.projects) :
        before.projects[i].id = after.projects[k].id =>
            \A f \in FileArrays :
                \A j \in 1..Len(Field(before.projects[i], f)) :
                    \E n \in 1..Len(Field(after.projects[k], f)) :
                        LET old == Field(before.projects[i], f)[j]
                            new == Field(after.projects[k], f)[n]
                        IN  /\ ItemId(new) = ItemId(old)
                            /\ \A g \in PathFields \cap DOMAIN old :
                                   g \in DOMAIN new /\ new[g] = old[g]

\* C40: once set, the image_local_filename, audio_local_filename,
\* kml_filename and local_path of an entity never change: every step of
\* renameProject, switchProject, createProject and the save operations, and
\* the merge of the document with itself, leave every stored path of every
\* existing entity as it was.
C40_PathsStable ==
    [][/\ KeepsPaths(masterData, masterData')
       /\ KeepsPaths(masterData', mergeDatasets(masterData', masterData', uuids'))]_vars
\* The steps of the operations by themselves keep every stored path.
C40_StepsKeepPaths == [][KeepsPaths(masterData, masterData')]_vars
=============================================================================
